---- MODULE Spec2Model ----
(***************************************************************************)
(* Personal finance tracker backend: the goal & contribution ledger and    *)
(* the expense record store, as state machines over the persisted          *)
(* documents.  Every route handler is a pure operator from (store, clock,  *)
(* requester, id, request body) to (store', response); the actions apply   *)
(* the handlers.  Amounts are integers (minor currency units), instants    *)
(* are integers (clock ticks).                                             *)
(***************************************************************************)
EXTENDS Integers, Sequences, FiniteSets, TLC

(* ----------------------------- bounds -------------------------------- *)
\* largest amount a request may carry
MaxAmount == 2
\* last instant of the modelled clock
MaxTime == 2
\* cap on the number of contributions recorded on a goal
MaxContributions == 2
\* cap on a goal's currentAmount
MaxTotal == 12
\* largest page number a list request asks for
MaxPage == 2
\* largest page size a list request asks for
MaxLimit == 2
\* instants per calendar day
DayTicks == 2
\* days per calendar month
MonthDays == 1
MaxPending == 2

Users == {"alice", "bob"}
GoalIds == {"g1", "g2"}
Statuses == {"Active", "Completed", "Paused", "Cancelled"}
Notes == {""}
Instants == 0..MaxTime
\* request dates may lie one tick beyond the clock's last instant
Dates == 0..(MaxTime + 1)

VARIABLES
    goals,      \* the Goal collection: GoalIds -> document or Unused/Deleted
    now,        \* the clock read by new Date() / Date.now
    res,        \* the response to the most recent request
    inflight,   \* per request slot: a contribute/status request between its
                \* findOne and its save (used by the concurrent specification)
    expenses,   \* the Expense collection: ExpenseIds -> document or Unused/Deleted
    query,      \* req.user and req.query of the request that res answers, when
                \* that request is a list or a dashboard report
    client      \* the browser of the frontend: localStorage's token, the
                \* location, the requests under way, the toasts shown

vars == <<goals, now, res, inflight, expenses, query, client>>

(* --------------------------- documents ------------------------------- *)
Unused == [void |-> "unused"]
Deleted == [void |-> "deleted"]
IsDoc(d) == "void" \notin DOMAIN d

Res(code, message) == [code |-> code, message |-> message]
NoResponse == Res(0, "")

\* an optional request field: <<>> when the key is absent, <<v>> when present
Opt(S) == {<<>>} \cup {<<v>> : v \in S}
Has(field) == field # <<>>
Val(field) == field[1]

RECURSIVE SumAmounts(_)
SumAmounts(cs) ==
    IF cs = <<>> THEN 0 ELSE cs[1].amount + SumAmounts(Tail(cs))

(* ------------------------ request bodies ----------------------------- *)
\* a JSON amount: a number, or the same digits sent as a string.  isFloat()
\* validates the string form of either and leaves req.body untouched.
AmountInputs == [v : 0..MaxAmount, str : BOOLEAN]

\* the keys of a goal request body the handlers or the schema read
GoalBodies ==
    [targetAmount  : Opt(0..MaxAmount),
     currentAmount : Opt(0..MaxAmount),
     targetDate    : Opt(Dates),
     status        : Opt(Statuses),
     contributions : Opt({<<>>}),
     user          : Opt(Users)]

\* the body {}
EmptyBody ==
    [targetAmount |-> <<>>, currentAmount |-> <<>>, targetDate |-> <<>>,
     status |-> <<>>, contributions |-> <<>>, user |-> <<>>]

(* ------------------ Goal schema (models/Expense.js) ------------------ *)
\* goalSchema.targetDate.validate.validator
TargetDateValidator(value, t) == value > t

\* the schema's validators, run by save() on the whole document
ValidGoal(doc, t) ==
    /\ doc.targetAmount >= 1
    /\ doc.currentAmount >= 0
    /\ TargetDateValidator(doc.targetDate, t)
    /\ doc.status \in Statuses
    /\ \A i \in 1..Len(doc.contributions) : doc.contributions[i].amount >= 1

RECURSIVE DecimalDigits(_)
DecimalDigits(n) == IF n < 10 THEN 1 ELSE 1 + DecimalDigits(n \div 10)

RECURSIVE Pow10(_)
Pow10(k) == IF k = 0 THEN 1 ELSE 10 * Pow10(k - 1)

\* JavaScript  number + amount, cast back to Number by the schema: addition
\* for a number, concatenation of the decimal digits for a string
JsPlus(cur, amount) ==
    IF amount.str
    THEN cur * Pow10(DecimalDigits(amount.v)) + amount.v
    ELSE cur + amount.v

\* goalSchema.methods.addContribution, without its save()
AddContributionMutant(goal, amount, note, t) ==
    [goal EXCEPT
        !.contributions = Append(@, [amount |-> amount.v, date |-> t, note |-> note]),
        !.currentAmount = JsPlus(@, amount),
        !.status = IF JsPlus(goal.currentAmount, amount) > goal.targetAmount
                   THEN "Completed" ELSE @]
AddContribution(goal, amount, note, t) ==
    [goal EXCEPT
        !.contributions = Append(@, [amount |-> amount.v, date |-> t, note |-> note]),
        !.currentAmount = JsPlus(@, amount),
        !.status = IF JsPlus(goal.currentAmount, amount) >= goal.targetAmount
                   THEN "Completed" ELSE @]

(* --------------------------- persistence ----------------------------- *)
\* Goal.findOne({ _id: id, user: userId })
FindOneMutant(gs, id, u) == gs[id]
FindOne(gs, id, u) ==
    IF IsDoc(gs[id]) /\ gs[id].user = u THEN gs[id] ELSE Unused

ScalarPaths ==
    {"user", "targetAmount", "currentAmount", "targetDate", "status", "createdAt"}

IsPrefix(a, b) == Len(a) <= Len(b) /\ SubSeq(b, 1, Len(a)) = a

\* the update save() sends for a loaded document: $set of every scalar path
\* whose value changed since it was loaded, $push of the appended
\* contributions (a replaced array is $set)
ApplyDelta(db, orig, doc) ==
    [p \in DOMAIN db |->
        IF p \in ScalarPaths
        THEN IF doc[p] # orig[p] THEN doc[p] ELSE db[p]
        ELSE IF doc.contributions = orig.contributions THEN db.contributions
             ELSE IF IsPrefix(orig.contributions, doc.contributions)
                  THEN db.contributions \o
                       SubSeq(doc.contributions, Len(orig.contributions) + 1,
                              Len(doc.contributions))
                  ELSE doc.contributions]

\* document.save() of a document loaded as orig and changed to doc:
\* validation, then the update; a ValidationError or a missing document
\* rejects the save and writes nothing
SaveGoal(gs, id, orig, doc, t) ==
    IF ~ValidGoal(doc, t) THEN [error |-> "ValidationError", goals |-> gs]
    ELSE IF ~IsDoc(gs[id]) THEN [error |-> "DocumentNotFoundError", goals |-> gs]
    ELSE [error |-> "", goals |-> [gs EXCEPT ![id] = ApplyDelta(gs[id], orig, doc)]]

(* ------------------------- goal handlers ----------------------------- *)
Out(gs, r) == [goals |-> gs, res |-> r]

ValidationFailed == Res(400, "Validation failed")
DateNotFuture == Res(400, "Target date must be in the future")
GoalNotFound == Res(404, "Goal not found")
InactiveGoal == Res(400, "Cannot contribute to inactive goal")

\* targetDate <= new Date(), the route's own check of a supplied target date
NotFutureMutant(date, t) == date < t
NotFuture(date, t) == date <= t

\* POST /api/goals  (id: the identifier the storage layer generates)
CreateGoalHandler(gs, t, u, id, body) ==
    IF ~Has(body.targetAmount) \/ ~Has(body.targetDate) THEN Out(gs, ValidationFailed)
    ELSE IF Val(body.targetAmount) < 1 THEN Out(gs, ValidationFailed)
    ELSE IF NotFuture(Val(body.targetDate), t) THEN Out(gs, DateNotFuture)
    ELSE LET goal == [user          |-> u,
                      targetAmount  |-> Val(body.targetAmount),
                      currentAmount |-> IF Has(body.currentAmount)
                                        THEN Val(body.currentAmount) ELSE 0,
                      targetDate    |-> Val(body.targetDate),
                      status        |-> IF Has(body.status)
                                        THEN Val(body.status) ELSE "Active",
                      contributions |-> IF Has(body.contributions)
                                        THEN Val(body.contributions) ELSE <<>>,
                      createdAt     |-> t]
         IN  IF ~ValidGoal(goal, t) THEN Out(gs, ValidationFailed)
             ELSE Out([gs EXCEPT ![id] = goal], Res(201, "Goal created successfully"))

\* Object.keys(req.body).forEach(key => goal[key] = req.body[key])
MergeBody(goal, body) ==
    [p \in DOMAIN goal |->
        IF p \in DOMAIN body /\ Has(body[p]) THEN Val(body[p]) ELSE goal[p]]

\* "Auto-update status based on progress"
AutoCompleteMutant(goal) ==
    IF goal.currentAmount >= goal.targetAmount /\ goal.status = "Active"
    THEN [goal EXCEPT !.status = "Completed"]
    ELSE IF goal.currentAmount < goal.targetAmount /\ goal.status = "Completed"
    THEN [goal EXCEPT !.status = "Active"] ELSE goal
AutoComplete(goal) ==
    IF goal.currentAmount >= goal.targetAmount /\ goal.status = "Active"
    THEN [goal EXCEPT !.status = "Completed"] ELSE goal

\* PUT /api/goals/:id
UpdateGoalHandler(gs, t, u, id, body) ==
    IF Has(body.targetAmount) /\ Val(body.targetAmount) < 1
    THEN Out(gs, ValidationFailed)
    ELSE LET goal == FindOne(gs, id, u) IN
         IF ~IsDoc(goal) THEN Out(gs, GoalNotFound)
         ELSE IF Has(body.targetDate) /\ NotFuture(Val(body.targetDate), t)
         THEN Out(gs, DateNotFuture)
         ELSE LET saved == SaveGoal(gs, id, goal, AutoComplete(MergeBody(goal, body)), t) IN
              IF saved.error = "" THEN Out(saved.goals, Res(200, "Goal updated successfully"))
              ELSE IF saved.error = "ValidationError" THEN Out(gs, ValidationFailed)
              ELSE Out(gs, Res(500, "Server error while updating goal"))

\* DELETE /api/goals/:id
DeleteGoalHandler(gs, t, u, id) ==
    IF ~IsDoc(FindOne(gs, id, u)) THEN Out(gs, GoalNotFound)
    ELSE Out([gs EXCEPT ![id] = Deleted], Res(200, "Goal deleted successfully"))

\* GET /api/goals/:id  (the 200 response is the goal document)
GetGoalHandler(gs, t, u, id) ==
    IF ~IsDoc(FindOne(gs, id, u)) THEN Out(gs, GoalNotFound)
    ELSE Out(gs, Res(200, "goal"))

\* POST /api/goals/:id/contribute, from the loaded goal on: the status
\* check, the model method and its save() against the collection gs
ContributeLoadedMutant(gs, t, id, goal, amount, note) ==
    LET saved == SaveGoal(gs, id, goal, AddContribution(goal, amount, note, t), t) IN
    IF saved.error = "" THEN Out(saved.goals, Res(200, "Contribution added successfully"))
    ELSE Out(gs, Res(500, "Server error while adding contribution"))
ContributeLoaded(gs, t, id, goal, amount, note) ==
    IF goal.status # "Active" THEN Out(gs, InactiveGoal)
    ELSE LET saved == SaveGoal(gs, id, goal, AddContribution(goal, amount, note, t), t) IN
         IF saved.error = "" THEN Out(saved.goals, Res(200, "Contribution added successfully"))
         ELSE Out(gs, Res(500, "Server error while adding contribution"))

\* POST /api/goals/:id/contribute
ContributeHandler(gs, t, u, id, amount, note) ==
    IF amount.v < 1 THEN Out(gs, ValidationFailed)
    ELSE LET goal == FindOne(gs, id, u) IN
         IF ~IsDoc(goal) THEN Out(gs, GoalNotFound)
         ELSE ContributeLoaded(gs, t, id, goal, amount, note)

\* the place of c in a list sorted by date descending: after every entry
\* dated c.date or later (Array.prototype.sort is stable)
InsertByDate(sorted, c) ==
    LET k == Cardinality({i \in DOMAIN sorted : sorted[i].date >= c.date})
    IN  SubSeq(sorted, 1, k) \o <<c>> \o SubSeq(sorted, k + 1, Len(sorted))

RECURSIVE SortNewestFirst(_)
\* goal.contributions.sort((a, b) => b.date - a.date)
SortNewestFirstMutant(cs) == cs
SortNewestFirst(cs) ==
    IF cs = <<>> THEN <<>>
    ELSE InsertByDate(SortNewestFirst(SubSeq(cs, 1, Len(cs) - 1)), cs[Len(cs)])

\* GET /api/goals/:id/contributions
ListContributionsHandler(gs, t, u, id) ==
    LET goal == FindOne(gs, id, u) IN
    IF ~IsDoc(goal) THEN Out(gs, GoalNotFound)
    ELSE Out(gs, [code |-> 200, message |-> "",
                  contributions |-> SortNewestFirst(goal.contributions),
                  totalContributions |-> Len(goal.contributions),
                  totalAmount |-> SumAmounts(SortNewestFirst(goal.contributions))])

\* the values a client may send as status; "Archived" is not in the enum
StatusInputs == Statuses \cup {"Archived"}

\* PUT /api/goals/:id/status, from the loaded goal on
SetStatusLoaded(gs, t, id, goal, status) ==
    LET saved == SaveGoal(gs, id, goal, [goal EXCEPT !.status = status], t) IN
    IF saved.error = "" THEN Out(saved.goals, Res(200, "Goal status updated successfully"))
    ELSE Out(gs, Res(500, "Server error while updating goal status"))

\* PUT /api/goals/:id/status
SetStatusHandler(gs, t, u, id, status) ==
    IF status \notin Statuses THEN Out(gs, ValidationFailed)
    ELSE LET goal == FindOne(gs, id, u) IN
         IF ~IsDoc(goal) THEN Out(gs, GoalNotFound)
         ELSE SetStatusLoaded(gs, t, id, goal, status)

(* ---------------- Expense schema (models/Expense.js) ----------------- *)
ExpenseIds ==
    {"e1", "e2", "e3", "e4", "e5", "e6", "e7", "e8", "e9", "e10", "e11"}
\* expenseSchema.category.enum, in the order of the schema
CategoryOrder ==
    <<"Food & Dining", "Transportation", "Shopping", "Entertainment",
      "Bills & Utilities", "Healthcare", "Education", "Travel", "Groceries",
      "Housing", "Insurance", "Gifts & Donations", "Personal Care", "Business",
      "Other">>
Categories == {CategoryOrder[i] : i \in DOMAIN CategoryOrder}
\* text is a sequence of characters
TitleBus == <<"B", "u", "s">>
TitleBread == <<"b", "r", "e", "a", "d">>

\* the keys of an expense request body the handlers or the schema read
EmptyExpenseBody ==
    [title |-> <<>>, amount |-> <<>>, category |-> <<>>, date |-> <<>>,
     description |-> <<>>, user |-> <<>>]

\* the schema's validators, run by save() on the whole document
ValidExpenseMutant(doc) ==
    /\ doc.title # <<>>
    /\ doc.amount >= 1
ValidExpense(doc) ==
    /\ doc.title # <<>>
    /\ doc.amount >= 1
    /\ doc.category \in Categories

(* ------------------------ expense handlers --------------------------- *)
OutE(es, r) == [expenses |-> es, res |-> r]

ExpenseNotFound == Res(404, "Expense not found")

\* POST /api/expenses  (id: the identifier the storage layer generates)
CreateExpenseHandler(es, t, u, id, body) ==
    IF ~Has(body.title) \/ ~Has(body.amount) \/ ~Has(body.category)
    THEN OutE(es, ValidationFailed)
    ELSE IF Val(body.title) = <<>> \/ Val(body.amount) < 1
    THEN OutE(es, ValidationFailed)
    ELSE LET expense == [user        |-> u,
                         title       |-> Val(body.title),
                         amount      |-> Val(body.amount),
                         category    |-> Val(body.category),
                         date        |-> IF Has(body.date) THEN Val(body.date) ELSE t,
                         description |-> body.description,
                         createdAt   |-> t]
         IN  IF ~ValidExpense(expense) THEN OutE(es, ValidationFailed)
             ELSE OutE([es EXCEPT ![id] = expense],
                       Res(201, "Expense created successfully"))

\* Object.keys(req.body).forEach(key => expense[key] = req.body[key])
MergeExpenseBody(expense, body) ==
    [p \in DOMAIN expense |->
        IF p \in DOMAIN body /\ Has(body[p])
        THEN IF p = "description" THEN body[p] ELSE Val(body[p])
        ELSE expense[p]]

\* PUT /api/expenses/:id
UpdateExpenseHandler(es, t, u, id, body) ==
    IF \/ Has(body.title) /\ Val(body.title) = <<>>
       \/ Has(body.amount) /\ Val(body.amount) < 1
    THEN OutE(es, ValidationFailed)
    ELSE LET expense == FindOne(es, id, u) IN
         IF ~IsDoc(expense) THEN OutE(es, ExpenseNotFound)
         ELSE LET merged == MergeExpenseBody(expense, body) IN
              IF ~ValidExpense(merged) THEN OutE(es, ValidationFailed)
              ELSE OutE([es EXCEPT ![id] = merged],
                        Res(200, "Expense updated successfully"))

\* DELETE /api/expenses/:id
DeleteExpenseHandlerMutant(es, t, u, id) ==
    IF ~IsDoc(FindOne(es, id, u)) THEN OutE(es, ExpenseNotFound)
    ELSE OutE([j \in DOMAIN es |->
                  IF IsDoc(es[j]) /\ es[j].user = u THEN Deleted ELSE es[j]],
              Res(200, "Expense deleted successfully"))
DeleteExpenseHandler(es, t, u, id) ==
    IF ~IsDoc(FindOne(es, id, u)) THEN OutE(es, ExpenseNotFound)
    ELSE OutE([es EXCEPT ![id] = Deleted], Res(200, "Expense deleted successfully"))

\* GET /api/expenses/:id  (the 200 response is the expense document)
GetExpenseHandler(es, t, u, id) ==
    IF ~IsDoc(FindOne(es, id, u)) THEN OutE(es, ExpenseNotFound)
    ELSE OutE(es, Res(200, "expense"))

(* ------------------------ GET /api/expenses -------------------------- *)
\* the defaults of page and limit, and the validator's cap on limit
DefaultPage == 1
DefaultLimit == 10
LimitCap == 100

\* req.query without any key
NoFilterQuery ==
    [page |-> <<>>, limit |-> <<>>, category |-> <<>>, startDate |-> <<>>,
     endDate |-> <<>>, minAmount |-> <<>>, maxAmount |-> <<>>, search |-> <<>>]

\* "Build filter object": the requester and every key the query carries
\* (query values are non-empty strings, so a present key is truthy)
BuildFilter(u, q) ==
    [user |-> u, category |-> q.category, startDate |-> q.startDate,
     endDate |-> q.endDate, minAmount |-> q.minAmount,
     maxAmount |-> q.maxAmount, search |-> q.search]

\* the $options: 'i' case folding, on the alphabet of the modelled texts
Lower(c) == IF c = "B" THEN "b" ELSE c

\* { $regex: pat, $options: 'i' } for a literal pattern: pat occurs in text
RegexMatch(text, pat) ==
    \E i \in 0..(Len(text) - Len(pat)) :
        \A j \in 1..Len(pat) : Lower(text[i + j]) = Lower(pat[j])

\* a document satisfies the filter object
Matches(doc, f) ==
    /\ doc.user = f.user
    /\ Has(f.category) => doc.category = Val(f.category)
    /\ Has(f.startDate) => doc.date >= Val(f.startDate)
    /\ Has(f.endDate) => doc.date <= Val(f.endDate)
    /\ Has(f.minAmount) => doc.amount >= Val(f.minAmount)
    /\ Has(f.maxAmount) => doc.amount <= Val(f.maxAmount)
    /\ Has(f.search) =>
          \/ RegexMatch(doc.title, Val(f.search))
          \/ Has(doc.description) /\ RegexMatch(Val(doc.description), Val(f.search))

\* the ids Expense.find(filter) / countDocuments(filter) / $match select
Matching(es, f) == {id \in DOMAIN es : IsDoc(es[id]) /\ Matches(es[id], f)}

\* .sort({ date: -1, createdAt: -1 }): a may come before b
Precedes(a, b) ==
    \/ a.date > b.date
    \/ a.date = b.date /\ a.createdAt >= b.createdAt

\* every order the sort may return ids in (documents that tie on both keys
\* come in an order the storage engine chooses)
SortOrders(es, ids) ==
    {o \in [1..Cardinality(ids) -> ids] :
        /\ \A i, j \in DOMAIN o : i < j => o[i] # o[j] /\ Precedes(es[o[i]], es[o[j]])}

Min(a, b) == IF a < b THEN a ELSE b
Max(a, b) == IF a > b THEN a ELSE b

\* .skip(skip).limit(limit) of the sorted result, as documents with their _id
Window(es, order, skip, limit) ==
    [i \in 1..Max(0, Min(limit, Len(order) - skip)) |->
        [_id |-> order[skip + i]] @@ es[order[skip + i]]]

\* Math.ceil(total / limit)
CeilDivMutant(total, limit) == total \div limit
CeilDiv(total, limit) == (total + limit - 1) \div limit

RECURSIVE SumOver(_, _)
SumOver(es, ids) ==
    IF ids = {} THEN 0
    ELSE LET id == CHOOSE x \in ids : TRUE
         IN  es[id].amount + SumOver(es, ids \ {id})

\* a quotient kept exact
Ratio(n, d) == [num |-> n, den |-> d]

\* the $match / $group aggregate and its default for an empty result
SummariseMutant(es, f) ==
    LET ids == Matching(es, [f EXCEPT !.category = <<>>]) IN
    IF ids = {}
    THEN [totalAmount |-> 0, count |-> 0, averageAmount |-> Ratio(0, 1)]
    ELSE [totalAmount   |-> SumOver(es, ids),
          count         |-> Cardinality(ids),
          averageAmount |-> Ratio(SumOver(es, ids), Cardinality(ids))]
Summarise(es, f) ==
    LET ids == Matching(es, f) IN
    IF ids = {}
    THEN [totalAmount |-> 0, count |-> 0, averageAmount |-> Ratio(0, 1)]
    ELSE [totalAmount   |-> SumOver(es, ids),
          count         |-> Cardinality(ids),
          averageAmount |-> Ratio(SumOver(es, ids), Cardinality(ids))]

\* GET /api/expenses  (order: the sorted result of Expense.find(filter))
ListExpensesHandler(es, u, q, order) ==
    IF \/ Has(q.page) /\ Val(q.page) < 1
       \/ Has(q.limit) /\ (Val(q.limit) < 1 \/ Val(q.limit) > LimitCap)
    THEN ValidationFailed
    ELSE LET page == IF Has(q.page) THEN Val(q.page) ELSE DefaultPage
             limit == IF Has(q.limit) THEN Val(q.limit) ELSE DefaultLimit
             filter == BuildFilter(u, q)
             skip == (page - 1) * limit
             total == Cardinality(Matching(es, filter))
             totalPages == CeilDiv(total, limit)
         IN  [code |-> 200, message |-> "",
              expenses |-> Window(es, order, skip, limit),
              pagination |-> [currentPage  |-> page,
                              totalPages   |-> totalPages,
                              totalItems   |-> total,
                              itemsPerPage |-> limit,
                              hasNext      |-> page < totalPages,
                              hasPrev      |-> page > 1],
              summary |-> Summarise(es, filter)]

(* --------------------- dashboard: the calendar ----------------------- *)
MonthTicks == DayTicks * MonthDays
\* new Date(now.getFullYear(), now.getMonth(), 1): the month's first instant
StartOfMonth(t) == t - (t % MonthTicks)
\* new Date(now.getFullYear(), now.getMonth() + 1, 0): the first instant
\* (00:00) of the month's last day
EndOfMonth(t) == StartOfMonth(t) + MonthTicks - DayTicks
\* new Date(now.getFullYear(), now.getMonth() - 1, 1)
StartOfPreviousMonth(t) == StartOfMonth(t) - MonthTicks
\* new Date(now.getFullYear(), now.getMonth(), 0)
EndOfPreviousMonth(t) == StartOfMonth(t) - DayTicks

(* -------------------- dashboard: aggregation ------------------------- *)
\* $match: { user, date: { $gte: lo, $lte: hi } }
InRange(es, u, lo, hi) ==
    {id \in DOMAIN es :
        IsDoc(es[id]) /\ es[id].user = u /\ es[id].date >= lo /\ es[id].date <= hi}

\* the members of ids $group puts under _id: category
OfCategory(es, ids, c) == {id \in ids : es[id].category = c}
UsedCategories(es, ids) == {es[id].category : id \in ids}
\* totalAmount of every group
CategoryTotals(es, ids) ==
    [c \in UsedCategories(es, ids) |-> SumOver(es, OfCategory(es, ids, c))]

\* $sort: { totalAmount: -1 }: every order the groups may come in (groups
\* with equal totals come in an order the storage engine chooses)
RECURSIVE DescOrders(_, _)
DescOrders(S, key) ==
    IF S = {} THEN {<<>>}
    ELSE UNION {{<<c>> \o o : o \in DescOrders(S \ {c}, key)} :
                    c \in {x \in S : \A y \in S : key[x] >= key[y]}}

\* total > 0 ? (part / total) * 100 : 0
Percent(part, total) == IF total > 0 THEN Ratio(100 * part, total) ELSE Ratio(0, 1)
\* previous > 0 ? ((current - previous) / previous) * 100 : 0
ChangeMutant(current, previous) ==
    IF previous >= 0 THEN Ratio((current - previous) * 100, previous) ELSE Ratio(0, 1)
Change(current, previous) ==
    IF previous > 0 THEN Ratio((current - previous) * 100, previous) ELSE Ratio(0, 1)

RECURSIVE SumTotals(_)
\* rows.reduce((sum, r) => sum + r.totalAmount, 0)
SumTotals(rows) ==
    IF rows = <<>> THEN 0 ELSE rows[1].totalAmount + SumTotals(Tail(rows))

(* -------------------- GET /api/dashboard/overview -------------------- *)
\* { $limit: 10 } of the category breakdown
TopCategories == 10

\* the expenses the current-month aggregates match
MonthIds(es, t, u) == InRange(es, u, StartOfMonth(t), EndOfMonth(t))
\* the expenses the previous-month aggregate matches
PreviousMonthIds(es, t, u) ==
    InRange(es, u, StartOfPreviousMonth(t), EndOfPreviousMonth(t))

\* the goals of u with the given status
GoalsWithStatus(gs, u, status) ==
    {id \in DOMAIN gs : IsDoc(gs[id]) /\ gs[id].user = u /\ gs[id].status = status}

RECURSIVE SumField(_, _, _)
\* the sum of a numeric field over the documents ids of a collection
SumField(store, ids, field) ==
    IF ids = {} THEN 0
    ELSE LET id == CHOOSE x \in ids : TRUE
         IN  store[id][field] + SumField(store, ids \ {id}, field)

\* order: the sorted _id values of the category aggregate, before its $limit
\* (the budget block, read from the User document, and recentTransactions
\* are left out of the response)
OverviewHandler(es, gs, t, u, order) ==
    LET ids == MonthIds(es, t, u)
        totals == CategoryTotals(es, ids)
        currentTotal == SumOver(es, ids)
        previousTotal == SumOver(es, PreviousMonthIds(es, t, u))
        mine == {id \in DOMAIN gs : IsDoc(gs[id]) /\ gs[id].user = u}
    IN  [code |-> 200, message |-> "",
         currentMonth |->
            [totalExpenses |-> currentTotal,
             transactionCount |-> Cardinality(ids),
             averageTransaction |->
                IF ids = {} THEN Ratio(0, 1) ELSE Ratio(currentTotal, Cardinality(ids)),
             monthOverMonthChange |-> Change(currentTotal, previousTotal)],
         categoryBreakdown |->
            [i \in 1..Min(TopCategories, Len(order)) |->
                [_id |-> order[i],
                 totalAmount |-> totals[order[i]],
                 count |-> Cardinality(OfCategory(es, ids, order[i])),
                 percentage |-> Percent(totals[order[i]], currentTotal)]],
         goals |->
            [active |-> Cardinality(GoalsWithStatus(gs, u, "Active")),
             completed |-> Cardinality(GoalsWithStatus(gs, u, "Completed")),
             totalTarget |-> SumField(gs, mine, "targetAmount"),
             totalSaved |-> SumField(gs, mine, "currentAmount")]]

(* --------------- GET /api/dashboard/category-analysis ---------------- *)
\* req.query without any key
NoRange == [startDate |-> <<>>, endDate |-> <<>>]

AnalysisStart(t, q) == IF Has(q.startDate) THEN Val(q.startDate) ELSE StartOfMonth(t)
AnalysisEnd(t, q) == IF Has(q.endDate) THEN Val(q.endDate) ELSE EndOfMonth(t)
\* the expenses the first aggregate matches
AnalysisIds(es, t, u, q) == InRange(es, u, AnalysisStart(t, q), AnalysisEnd(t, q))

\* order: the sorted _id values of the first aggregate
CategoryAnalysisHandlerMutant(es, t, u, q, order) ==
    LET start == AnalysisStart(t, q)
        end == AnalysisEnd(t, q)
        ids == AnalysisIds(es, t, u, q)
        totals == CategoryTotals(es, ids)
        totalSpent == SumOver(es, InRange(es, u, start, end + MonthTicks))
        periodLength == end - start
        previousIds == InRange(es, u, start - periodLength, end - periodLength)
        previous == CategoryTotals(es, previousIds)
        previousAmount(c) == IF c \in DOMAIN previous THEN previous[c] ELSE 0
    IN  [code |-> 200, message |-> "",
         dateRange |-> [startDate |-> start, endDate |-> end],
         totalSpent |-> totalSpent,
         categoryCount |-> Len(order),
         categories |->
            [i \in DOMAIN order |->
                [_id |-> order[i],
                 totalAmount |-> totals[order[i]],
                 count |-> Cardinality(OfCategory(es, ids, order[i])),
                 percentage |-> Percent(totals[order[i]], totalSpent),
                 previousPeriodAmount |-> previousAmount(order[i]),
                 changePercentage |->
                    Change(totals[order[i]], previousAmount(order[i]))]]]
CategoryAnalysisHandler(es, t, u, q, order) ==
    LET start == AnalysisStart(t, q)
        end == AnalysisEnd(t, q)
        ids == AnalysisIds(es, t, u, q)
        totals == CategoryTotals(es, ids)
        totalSpent == SumTotals([i \in DOMAIN order |-> [totalAmount |-> totals[order[i]]]])
        periodLength == end - start
        previousIds == InRange(es, u, start - periodLength, end - periodLength)
        previous == CategoryTotals(es, previousIds)
        previousAmount(c) == IF c \in DOMAIN previous THEN previous[c] ELSE 0
    IN  [code |-> 200, message |-> "",
         dateRange |-> [startDate |-> start, endDate |-> end],
         totalSpent |-> totalSpent,
         categoryCount |-> Len(order),
         categories |->
            [i \in DOMAIN order |->
                [_id |-> order[i],
                 totalAmount |-> totals[order[i]],
                 count |-> Cardinality(OfCategory(es, ids, order[i])),
                 percentage |-> Percent(totals[order[i]], totalSpent),
                 previousPeriodAmount |-> previousAmount(order[i]),
                 changePercentage |->
                    Change(totals[order[i]], previousAmount(order[i]))]]]

(* -------------- GET /api/dashboard/spending-trends ------------------- *)
WeekDays == 7
YearMonths == 12
YearTicks == YearMonths * MonthTicks
Periods == {"7days", "30days", "90days", "1year"}
Groupings == {"day", "week", "month"}
NoTrendQuery == [period |-> <<>>, groupBy |-> <<>>]

\* query('period').optional().isIn(...), query('groupBy').optional().isIn(...)
ValidTrendQuery(q) ==
    /\ Has(q.period) => Val(q.period) \in Periods
    /\ Has(q.groupBy) => Val(q.groupBy) \in Groupings

\* const { period = '30days', groupBy = 'day' } = req.query
PeriodOf(q) == IF Has(q.period) THEN Val(q.period) ELSE "30days"
GroupByOf(q) == IF Has(q.groupBy) THEN Val(q.groupBy) ELSE "day"

PeriodDays(period) ==
    CASE period = "7days" -> 7
      [] period = "30days" -> 30
      [] period = "90days" -> 90
      [] OTHER -> 30

\* '1year' is 00:00 of the same day of the year before; the others are a
\* number of days before the request's instant
TrendStart(t, period) ==
    IF period = "1year"
    THEN (t - (t % DayTicks)) - YearTicks
    ELSE t - PeriodDays(period) * DayTicks

\* $year, $month, $dayOfMonth, $week of a date
YearOf(d) == d \div YearTicks
MonthOf(d) == ((d % YearTicks) \div MonthTicks) + 1
DayOfMonth(d) == ((d % MonthTicks) \div DayTicks) + 1
WeekOf(d) == ((d % YearTicks) \div DayTicks) \div WeekDays

\* the $group key: {year, month, day}, {year, week} or {year, month}
DateGrouping(groupBy, d) ==
    CASE groupBy = "week" -> <<YearOf(d), WeekOf(d)>>
      [] groupBy = "month" -> <<YearOf(d), MonthOf(d)>>
      [] OTHER -> <<YearOf(d), MonthOf(d), DayOfMonth(d)>>

\* $sort by year, month, day, week ascending: the order of the key's fields
KeyBefore(a, b) ==
    \E i \in DOMAIN a :
        /\ a[i] < b[i]
        /\ \A j \in 1..(i - 1) : a[j] = b[j]

RECURSIVE SortKeys(_)
SortKeys(S) ==
    IF S = {} THEN <<>>
    ELSE LET first == CHOOSE k \in S : \A j \in S \ {k} : KeyBefore(k, j)
         IN  <<first>> \o SortKeys(S \ {first})

\* the aggregate: $match, $group, $sort
Trends(es, t, u, q) ==
    LET ids == InRange(es, u, TrendStart(t, PeriodOf(q)), t)
        keyOf(id) == DateGrouping(GroupByOf(q), es[id].date)
        keys == SortKeys({keyOf(id) : id \in ids})
        bucket(k) == {id \in ids : keyOf(id) = k}
    IN  [i \in DOMAIN keys |->
            [_id |-> keys[i],
             totalAmount |-> SumOver(es, bucket(keys[i])),
             count |-> Cardinality(bucket(keys[i])),
             categories |-> {es[id].category : id \in bucket(keys[i])}]]

TrendSummaryMutant(trends) ==
    [totalPeriods |-> Len(trends),
     totalAmount |-> SumTotals(trends),
     averagePerPeriod |-> Ratio(SumTotals(trends), Len(trends))]
TrendSummary(trends) ==
    [totalPeriods |-> Len(trends),
     totalAmount |-> SumTotals(trends),
     averagePerPeriod |->
        IF Len(trends) > 0 THEN Ratio(SumTotals(trends), Len(trends)) ELSE Ratio(0, 1)]

SpendingTrendsHandler(es, t, u, q) ==
    IF ~ValidTrendQuery(q) THEN ValidationFailed
    ELSE [code |-> 200, message |-> "",
          period |-> PeriodOf(q),
          groupBy |-> GroupByOf(q),
          trends |-> Trends(es, t, u, q),
          summary |-> TrendSummary(Trends(es, t, u, q))]

(* ----------------- GET /api/dashboard/goals-progress ----------------- *)
\* Math.ceil(ms / (1000 * 60 * 60 * 24))
CeilDays(ticks) == 0 - ((0 - ticks) \div DayTicks)

\* a >= b for quotients with positive divisors
RatioGeq(a, b) == a.num * b.den >= b.num * a.den

MonthlyDays == 30
\* the floor 0.1 of monthsRemaining
MinMonths == Ratio(1, 10)

\* Math.max(daysRemaining / 30, 0.1)
MonthsRemainingMutant(daysRemaining) == Ratio(daysRemaining, MonthlyDays)
MonthsRemaining(daysRemaining) ==
    IF daysRemaining * MinMonths.den >= MinMonths.num * MonthlyDays
    THEN Ratio(daysRemaining, MonthlyDays) ELSE MinMonths

\* an integer divided by a quotient
DivideBy(n, r) == Ratio(n * r.den, r.num)

\* one entry of goalsByProgress (contributionHistory is left out)
GoalProgress(goal, t) ==
    LET progress == IF goal.targetAmount > 0
                    THEN Ratio(goal.currentAmount * 100, goal.targetAmount)
                    ELSE Ratio(0, 1)
        daysTotal == CeilDays(goal.targetDate - goal.createdAt)
        daysRemaining == CeilDays(goal.targetDate - t)
        daysPassed == daysTotal - daysRemaining
        timeProgress == IF daysTotal > 0 THEN Ratio(daysPassed * 100, daysTotal)
                        ELSE Ratio(0, 1)
    IN  [status |-> goal.status,
         targetAmount |-> goal.targetAmount,
         currentAmount |-> goal.currentAmount,
         targetDate |-> goal.targetDate,
         createdAt |-> goal.createdAt,
         progress |-> progress,
         remainingAmount |-> Max(goal.targetAmount - goal.currentAmount, 0),
         daysRemaining |-> daysRemaining,
         daysPassed |-> daysPassed,
         timeProgress |-> timeProgress,
         isOnTrack |-> RatioGeq(progress, timeProgress),
         requiredMonthlyContribution |->
            DivideBy(Max(goal.targetAmount - goal.currentAmount, 0),
                     MonthsRemaining(daysRemaining))]

\* the rows of goals are keyed by the goal's _id (the aggregate by goal
\* category is left out)
GoalsProgressHandler(gs, t, u) ==
    LET mine == {id \in DOMAIN gs : IsDoc(gs[id]) /\ gs[id].user = u}
        rows == [id \in mine |-> GoalProgress(gs[id], t)]
        totalTargetAmount == SumField(gs, mine, "targetAmount")
        totalCurrentAmount == SumField(gs, mine, "currentAmount")
    IN  [code |-> 200, message |-> "",
         overview |->
            [totalGoals |-> Cardinality(mine),
             activeGoals |-> Cardinality(GoalsWithStatus(gs, u, "Active")),
             completedGoals |-> Cardinality(GoalsWithStatus(gs, u, "Completed")),
             totalTargetAmount |-> totalTargetAmount,
             totalCurrentAmount |-> totalCurrentAmount,
             overallProgress |-> Percent(totalCurrentAmount, totalTargetAmount)],
         goals |-> rows,
         onTrackGoals |->
            Cardinality({id \in mine : rows[id].isOnTrack /\ rows[id].status = "Active"}),
         behindGoals |->
            Cardinality({id \in mine : ~rows[id].isOnTrack /\ rows[id].status = "Active"})]

(* -------------------------- GET /api/goals --------------------------- *)
NoGoalFilter == [status |-> <<>>]

\* .sort({ priority: -1, targetDate: 1, createdAt: -1 }); no modelled
\* request sets priority, so every goal has the default
GoalPrecedes(a, b) ==
    \/ a.targetDate < b.targetDate
    \/ a.targetDate = b.targetDate /\ a.createdAt >= b.createdAt

\* Goal.find(filter): the requester's goals, of the status asked for if any
\* (the category key of the filter is left out)
MatchingGoals(gs, u, q) ==
    {id \in DOMAIN gs :
        /\ IsDoc(gs[id])
        /\ gs[id].user = u
        /\ Has(q.status) => gs[id].status = Val(q.status)}

GoalOrders(gs, ids) ==
    {o \in [1..Cardinality(ids) -> ids] :
        /\ \A i, j \in DOMAIN o : i < j => o[i] # o[j] /\ GoalPrecedes(gs[o[i]], gs[o[j]])}

ListGoalsHandler(gs, u, q, order) ==
    IF Has(q.status) /\ Val(q.status) \notin Statuses THEN ValidationFailed
    ELSE LET ids == {order[i] : i \in DOMAIN order}
             totalTargetAmount == SumField(gs, ids, "targetAmount")
             totalCurrentAmount == SumField(gs, ids, "currentAmount")
         IN  [code |-> 200, message |-> "",
              goals |-> [i \in DOMAIN order |-> [_id |-> order[i]] @@ gs[order[i]]],
              statistics |->
                 [totalGoals |-> Len(order),
                  activeGoals |->
                     Cardinality({id \in ids : gs[id].status = "Active"}),
                  completedGoals |->
                     Cardinality({id \in ids : gs[id].status = "Completed"}),
                  totalTargetAmount |-> totalTargetAmount,
                  totalCurrentAmount |-> totalCurrentAmount,
                  overallProgress |-> Percent(totalCurrentAmount, totalTargetAmount)]]

(* ------------------- middleware/auth.js: auth ------------------------ *)
\* the subjects tokens were issued to: the users of the User collection and
\* one whose account has since been removed
FormerUsers == {"carol"}
Subjects == Users \cup FormerUsers

\* a token: whether its signature matches JWT_SECRET (a string that is not
\* a JWT does not), whether its exp has passed, and its userId claim
Tokens == [signed : BOOLEAN, expired : BOOLEAN, userId : Subjects]
NoHeader == [present |-> FALSE]
\* the Authorization header: absent, or a token with or without 'Bearer '
Credentials ==
    {NoHeader} \cup [present : {TRUE}, bearer : BOOLEAN, token : Tokens]

\* jwt.verify: the signature is checked before the expiry
Verify(token) ==
    IF ~token.signed THEN [error |-> "JsonWebTokenError"]
    ELSE IF token.expired THEN [error |-> "TokenExpiredError"]
    ELSE [error |-> "", userId |-> token.userId]

\* User.findById
FindUserById(id) == IF id \in Users THEN <<id>> ELSE <<>>

Next_(u) == [res |-> NoResponse, user |-> <<u>>]
Denied(message) == [res |-> Res(401, message), user |-> <<>>]

\* the middleware: a 401 response, or next() with req.user set (the
\* slice(7) of a 'Bearer ' header and the bare header give the same token)
AuthMutant(cred) ==
    IF ~cred.present THEN Denied("No token, authorization denied")
    ELSE LET decoded == Verify(cred.token) IN
         IF decoded.error = "JsonWebTokenError" THEN Denied("Invalid token")
         ELSE IF decoded.error = "TokenExpiredError" THEN Denied("Token expired")
         ELSE Next_(decoded.userId)
Auth(cred) ==
    IF ~cred.present THEN Denied("No token, authorization denied")
    ELSE LET decoded == Verify(cred.token) IN
         IF decoded.error = "JsonWebTokenError" THEN Denied("Invalid token")
         ELSE IF decoded.error = "TokenExpiredError" THEN Denied("Token expired")
         ELSE IF ~Has(FindUserById(decoded.userId))
         THEN Denied("User not found, authorization denied")
         ELSE Next_(Val(FindUserById(decoded.userId)))

(* ---------------- GET /api/dashboard/monthly-report ------------------ *)
\* the calendar year of the clock's instant 0
ClockYear == 2024
MinYear == 2020
MaxYear == 2030
NoReportQuery == [year |-> <<>>, month |-> <<>>]

\* query('year').optional().isInt({ min: 2020, max: 2030 }),
\* query('month').optional().isInt({ min: 1, max: 12 })
ValidReportQuery(q) ==
    /\ Has(q.year) => Val(q.year) \in MinYear..MaxYear
    /\ Has(q.month) => Val(q.month) \in 1..YearMonths

\* parseInt(req.query.year) || now.getFullYear(), and the same for month
ReportYear(t, q) == IF Has(q.year) THEN Val(q.year) ELSE ClockYear + YearOf(t)
ReportMonth(t, q) == IF Has(q.month) THEN Val(q.month) ELSE MonthOf(t)

\* new Date(year, month - 1, 1) and new Date(year, month, 0)
ReportStart(t, q) ==
    (ReportYear(t, q) - ClockYear) * YearTicks + (ReportMonth(t, q) - 1) * MonthTicks
ReportEnd(t, q) == ReportStart(t, q) + MonthTicks - DayTicks

ReportIds(es, t, u, q) == InRange(es, u, ReportStart(t, q), ReportEnd(t, q))

\* $group by $dayOfMonth, $sort: { _id: 1 }
DailyBreakdown(es, ids) ==
    LET days == SortKeys({<<DayOfMonth(es[id].date)>> : id \in ids})
        ofDay(d) == {id \in ids : DayOfMonth(es[id].date) = d}
    IN  [i \in DOMAIN days |->
            [_id |-> days[i][1],
             totalAmount |-> SumOver(es, ofDay(days[i][1])),
             count |-> Cardinality(ofDay(days[i][1]))]]

\* $group by $paymentMethod: no modelled request sets paymentMethod, so
\* every expense has the schema's default
PaymentMethodBreakdown(es, ids) ==
    IF ids = {} THEN <<>>
    ELSE <<[_id |-> "Cash", totalAmount |-> SumOver(es, ids), count |-> Cardinality(ids)]>>

\* order: the sorted _id values of the category aggregate (topExpenses and
\* the budget fields, read from the User document, are left out)
MonthlyReportHandler(es, t, u, q, order) ==
    IF ~ValidReportQuery(q) THEN ValidationFailed
    ELSE LET ids == ReportIds(es, t, u, q)
             totals == CategoryTotals(es, ids)
             monthlyTotal == SumOver(es, ids)
         IN  [code |-> 200, message |-> "",
              period |-> [year |-> ReportYear(t, q), month |-> ReportMonth(t, q),
                          startDate |-> ReportStart(t, q), endDate |-> ReportEnd(t, q)],
              summary |->
                 [totalExpenses |-> monthlyTotal,
                  transactionCount |-> Cardinality(ids),
                  averageTransaction |->
                     IF ids = {} THEN Ratio(0, 1)
                     ELSE Ratio(monthlyTotal, Cardinality(ids))],
              dailyBreakdown |-> DailyBreakdown(es, ids),
              categoryBreakdown |->
                 [i \in DOMAIN order |->
                     [_id |-> order[i],
                      totalAmount |-> totals[order[i]],
                      count |-> Cardinality(OfCategory(es, ids, order[i])),
                      averageAmount |->
                         Ratio(totals[order[i]], Cardinality(OfCategory(es, ids, order[i])))]],
              paymentMethodBreakdown |-> PaymentMethodBreakdown(es, ids)]

(* -------------- frontend API client (services/api.js) --------------- *)
\* the values the login page stores under localStorage's 'token'
StoredTokens == {"t1", "t2"}
LoginPath == "/login"
Paths == {LoginPath, "/goals"}

NoAuthorization == <<>>
Bearer(token) == <<"Bearer", token>>

\* api.interceptors.request: the Authorization header of the outgoing
\* config (no caller sets one); getItem gives null when nothing is stored
RequestInterceptorMutant(token) ==
    Bearer(IF Has(token) THEN Val(token) ELSE "null")
RequestInterceptor(token) ==
    IF Has(token) THEN Bearer(Val(token)) ELSE NoAuthorization

\* how a request ends: a response (its status and the message and errors
\* of its body), no response (error.request), or an error before sending
ErrorLists == {<<>>, <<"Amount must be positive">>}
Outcomes ==
    [kind : {"response"}, status : {200, 400, 401, 403, 404, 422, 500},
     message : {"", "Goal not found"}, errors : Opt(ErrorLists)]
    \cup {[kind |-> "request"], [kind |-> "setup"]}

\* data.message || fallback
OrElse(message, fallback) == IF message # "" THEN message ELSE fallback

\* the toasts of the response interceptor's error handler
Toasts(c, o) ==
    IF o.kind = "request" THEN <<"Network error. Please check your connection.">>
    ELSE IF o.kind = "setup" THEN <<"An unexpected error occurred.">>
    ELSE IF o.status = 200 THEN <<>>
    ELSE IF o.status = 401
    THEN IF c.pathname # LoginPath
         THEN <<"Session expired. Please login again.">> ELSE <<>>
    ELSE IF o.status = 403
    THEN <<"You do not have permission to perform this action.">>
    ELSE IF o.status = 404 THEN <<OrElse(o.message, "Resource not found.")>>
    ELSE IF o.status = 422
    THEN IF Has(o.errors) THEN Val(o.errors)
         ELSE <<OrElse(o.message, "Validation failed.")>>
    ELSE IF o.status = 500 THEN <<"Server error. Please try again later.">>
    ELSE <<OrElse(o.message, "An unexpected error occurred.")>>

Is401(o) == o.kind = "response" /\ o.status = 401

\* api.interceptors.response on the browser state c: case 401 removes the
\* token and, away from /login, assigns window.location.href
ResponseInterceptorMutant(c, o) ==
    [c EXCEPT !.token = IF Is401(o) /\ c.pathname # LoginPath THEN <<>> ELSE @,
              !.href = IF Is401(o) /\ c.pathname # LoginPath THEN <<LoginPath>> ELSE @,
              !.toasts = Toasts(c, o)]
ResponseInterceptor(c, o) ==
    [c EXCEPT !.token = IF Is401(o) THEN <<>> ELSE @,
              !.href = IF Is401(o) /\ c.pathname # LoginPath THEN <<LoginPath>> ELSE @,
              !.toasts = Toasts(c, o)]

(* ------------------- one request at a time -------------------------- *)
Idle == [pc |-> "idle"]
NoQuery == [void |-> "none"]
Slots == {"r1", "r2"}

\* the documents of gs stay inside the model's bounds
WithinBounds(gs) ==
    \A id \in DOMAIN gs :
        IsDoc(gs[id]) =>
            /\ Len(gs[id].contributions) <= MaxContributions
            /\ gs[id].currentAmount <= MaxTotal

Apply(out) ==
    /\ WithinBounds(out.goals)
    /\ goals' = out.goals
    /\ res' = out.res
    /\ query' = NoQuery
    /\ UNCHANGED <<client, now, inflight, expenses>>

CreateGoal(u, id, body) ==
    /\ goals[id] = Unused
    /\ Apply(CreateGoalHandler(goals, now, u, id, body))

UpdateGoal(u, id, body) ==
    /\ id \in GoalIds
    /\ Apply(UpdateGoalHandler(goals, now, u, id, body))

DeleteGoal(u, id) ==
    /\ id \in GoalIds
    /\ Apply(DeleteGoalHandler(goals, now, u, id))

GetGoal(u, id) ==
    /\ id \in GoalIds
    /\ Apply(GetGoalHandler(goals, now, u, id))

Contribute(u, id, amount, note) ==
    /\ id \in GoalIds
    /\ Apply(ContributeHandler(goals, now, u, id, amount, note))

ListContributions(u, id) ==
    /\ id \in GoalIds
    /\ Apply(ListContributionsHandler(goals, now, u, id))

SetStatus(u, id, status) ==
    /\ id \in GoalIds
    /\ Apply(SetStatusHandler(goals, now, u, id, status))

\* ObjectIds are generated in increasing order
ExpenseIdOrder ==
    <<"e1", "e2", "e3", "e4", "e5", "e6", "e7", "e8", "e9", "e10", "e11">>
FreshIds(es) ==
    {ExpenseIdOrder[k] : k \in {i \in DOMAIN ExpenseIdOrder :
        /\ es[ExpenseIdOrder[i]] = Unused
        /\ \A j \in 1..(i - 1) : es[ExpenseIdOrder[j]] # Unused}}

ApplyExpense(out) ==
    /\ expenses' = out.expenses
    /\ res' = out.res
    /\ query' = NoQuery
    /\ UNCHANGED <<client, goals, now, inflight>>

CreateExpense(u, id, body) ==
    /\ id \in FreshIds(expenses)
    /\ ApplyExpense(CreateExpenseHandler(expenses, now, u, id, body))

UpdateExpense(u, id, body) ==
    /\ id \in ExpenseIds
    /\ ApplyExpense(UpdateExpenseHandler(expenses, now, u, id, body))

DeleteExpense(u, id) ==
    /\ id \in ExpenseIds
    /\ ApplyExpense(DeleteExpenseHandler(expenses, now, u, id))

GetExpense(u, id) ==
    /\ id \in ExpenseIds
    /\ ApplyExpense(GetExpenseHandler(expenses, now, u, id))

ListExpenses(u, q) ==
    /\ u \in Users
    /\ \E order \in SortOrders(expenses, Matching(expenses, BuildFilter(u, q))) :
            res' = ListExpensesHandler(expenses, u, q, order)
    /\ query' = [user |-> u, query |-> q]
    /\ UNCHANGED <<client, goals, now, inflight, expenses>>

CategoryAnalysis(u, q) ==
    /\ u \in Users
    /\ \E order \in DescOrders(UsedCategories(expenses, AnalysisIds(expenses, now, u, q)),
                               CategoryTotals(expenses, AnalysisIds(expenses, now, u, q))) :
            res' = CategoryAnalysisHandler(expenses, now, u, q, order)
    /\ query' = [user |-> u, query |-> q]
    /\ UNCHANGED <<client, goals, now, inflight, expenses>>

Overview(u) ==
    /\ u \in Users
    /\ \E order \in DescOrders(UsedCategories(expenses, MonthIds(expenses, now, u)),
                               CategoryTotals(expenses, MonthIds(expenses, now, u))) :
            res' = OverviewHandler(expenses, goals, now, u, order)
    /\ query' = [user |-> u, query |-> NoRange]
    /\ UNCHANGED <<client, goals, now, inflight, expenses>>

SpendingTrends(u, q) ==
    /\ u \in Users
    /\ res' = SpendingTrendsHandler(expenses, now, u, q)
    /\ query' = [user |-> u, query |-> q]
    /\ UNCHANGED <<client, goals, now, inflight, expenses>>

GoalsProgress(u) ==
    /\ u \in Users
    /\ res' = GoalsProgressHandler(goals, now, u)
    /\ query' = [user |-> u, query |-> NoRange]
    /\ UNCHANGED <<client, goals, now, inflight, expenses>>

ListGoals(u, q) ==
    /\ u \in Users
    /\ \E order \in GoalOrders(goals, MatchingGoals(goals, u, q)) :
            res' = ListGoalsHandler(goals, u, q, order)
    /\ query' = [user |-> u, query |-> q]
    /\ UNCHANGED <<client, goals, now, inflight, expenses>>

\* the middleware answered: no handler runs
Reject(r) ==
    /\ res' = r
    /\ query' = NoQuery
    /\ UNCHANGED <<client, goals, now, inflight, expenses>>

\* a route behind auth: the handler runs as req.user, or auth's answer
Protected(cred, Handler(_)) ==
    IF Has(Auth(cred).user) THEN Handler(Val(Auth(cred).user))
    ELSE Reject(Auth(cred).res)

AuthCreateGoal(cred, id, body) ==
    /\ cred \in Credentials
    /\ Protected(cred, LAMBDA u : CreateGoal(u, id, body))

AuthGetGoal(cred, id) ==
    /\ cred \in Credentials
    /\ Protected(cred, LAMBDA u : GetGoal(u, id))

AuthContribute(cred, id, amount, note) ==
    /\ cred \in Credentials
    /\ Protected(cred, LAMBDA u : Contribute(u, id, amount, note))

AuthCreateExpense(cred, id, body) ==
    /\ cred \in Credentials
    /\ Protected(cred, LAMBDA u : CreateExpense(u, id, body))

AuthGetExpense(cred, id) ==
    /\ cred \in Credentials
    /\ Protected(cred, LAMBDA u : GetExpense(u, id))

AuthDeleteExpense(cred, id) ==
    /\ cred \in Credentials
    /\ Protected(cred, LAMBDA u : DeleteExpense(u, id))

MonthlyReport(u, q) ==
    /\ u \in Users
    /\ \E order \in
          IF ValidReportQuery(q)
          THEN DescOrders(UsedCategories(expenses, ReportIds(expenses, now, u, q)),
                          CategoryTotals(expenses, ReportIds(expenses, now, u, q)))
          ELSE {<<>>} :
            res' = MonthlyReportHandler(expenses, now, u, q, order)
    /\ query' = [user |-> u, query |-> q]
    /\ UNCHANGED <<client, goals, now, inflight, expenses>>

\* the login page stores the token it was given
StoreToken(token) ==
    /\ token \in StoredTokens
    /\ client' = [client EXCEPT !.token = <<token>>]
    /\ UNCHANGED <<goals, now, res, inflight, expenses, query>>

\* a call through api: the request interceptor, then the request leaves
SendRequest ==
    /\ client.pending < MaxPending
    /\ client' = [client EXCEPT !.sent = RequestInterceptor(client.token),
                                !.pending = @ + 1]
    /\ UNCHANGED <<goals, now, res, inflight, expenses, query>>

\* a request under way ends and the response interceptor runs
ReceiveResponse(o) ==
    /\ client.pending > 0
    /\ client' = [ResponseInterceptor(client, o) EXCEPT !.pending = @ - 1]
    /\ UNCHANGED <<goals, now, res, inflight, expenses, query>>

\* the navigation an assignment to window.location.href started completes
FollowHref ==
    /\ Has(client.href)
    /\ client' = [client EXCEPT !.pathname = Val(client.href), !.href = <<>>]
    /\ UNCHANGED <<goals, now, res, inflight, expenses, query>>

\* the router moves to another page
Navigate(path) ==
    /\ path \in Paths
    /\ ~Has(client.href)
    /\ client' = [client EXCEPT !.pathname = path]
    /\ UNCHANGED <<goals, now, res, inflight, expenses, query>>

\* time passes between requests
Tick ==
    /\ now < MaxTime
    /\ now' = now + 1
    /\ UNCHANGED <<client, goals, res, inflight, expenses, query>>

Init ==
    /\ goals = [id \in GoalIds |-> Unused]
    /\ now = 0
    /\ res = NoResponse
    /\ inflight = [s \in Slots |-> Idle]
    /\ expenses = [id \in ExpenseIds |-> Unused]
    /\ query = NoQuery
    /\ client = [token |-> <<>>, pathname |-> LoginPath, href |-> <<>>,
                 pending |-> 0, sent |-> NoAuthorization, toasts |-> <<>>]

(* ----- Spec: the contribution ledger of one goal, requests in turn ---- *)
LedgerIds == {"g1"}
\* create bodies without seeds: the goal starts at currentAmount 0, Active,
\* with no contributions
PlainCreateBodies ==
    [targetAmount  : Opt({0, MaxAmount}),
     currentAmount : {<<>>},
     targetDate    : Opt({0, 1, MaxTime + 1}),
     status        : {<<>>},
     contributions : {<<>>},
     user          : {<<>>}]

Next ==
    \/ \E u \in Users, id \in LedgerIds, body \in PlainCreateBodies :
            CreateGoal(u, id, body)
    \/ \E u \in Users, id \in LedgerIds, amount \in AmountInputs, note \in Notes :
            Contribute(u, id, amount, note)
    \/ \E u \in Users, id \in LedgerIds, status \in StatusInputs :
            SetStatus(u, id, status)
    \/ Tick

Spec == Init /\ [][Next]_vars

(* --- SpecUpdate: one user's goal under Create, Update, Contribute ---- *)
Owner == "alice"
\* create bodies: the required keys (possibly missing) and a seeded
\* currentAmount
SeededCreateBodies ==
    [targetAmount  : Opt({0, MaxAmount}),
     currentAmount : Opt({1}),
     targetDate    : Opt(Dates),
     status        : {<<>>},
     contributions : {<<>>},
     user          : {<<>>}]
\* update bodies carry at most one key, any but user
UpdateBodies ==
    {EmptyBody}
    \cup {[EmptyBody EXCEPT !.targetAmount = <<v>>] : v \in {0, MaxAmount + 1}}
    \cup {[EmptyBody EXCEPT !.currentAmount = <<v>>] : v \in {0, MaxAmount}}
    \cup {[EmptyBody EXCEPT !.targetDate = <<d>>] : d \in Dates}
    \cup {[EmptyBody EXCEPT !.status = <<st>>] : st \in {"Active", "Paused"}}
    \cup {[EmptyBody EXCEPT !.contributions = <<cs>>] : cs \in {<<>>}}
\* two values of the enum and one outside it
AccessStatuses == {"Active", "Paused", "Archived"}
\* contributions of one unit (or the invalid 0), sent as JSON numbers
UnitAmounts == {a \in AmountInputs : a.v <= 1 /\ ~a.str}

NextUpdate ==
    \/ \E id \in LedgerIds, body \in SeededCreateBodies : CreateGoal(Owner, id, body)
    \/ \E id \in LedgerIds, body \in UpdateBodies : UpdateGoal(Owner, id, body)
    \/ \E id \in LedgerIds, amount \in UnitAmounts, note \in Notes :
            Contribute(Owner, id, amount, note)
    \/ \E id \in LedgerIds, status \in AccessStatuses : SetStatus(Owner, id, status)
    \/ Tick

SpecUpdate == Init /\ [][NextUpdate]_vars

(* --- SpecRace: two requests on one goal, interleaved at their awaits --- *)
\* amounts sent as JSON numbers
NumberAmounts == {a \in AmountInputs : ~a.str}

Loaded(op, id, goal, amount, note, status) ==
    [pc |-> "loaded", op |-> op, id |-> id, goal |-> goal,
     amount |-> amount, note |-> note, status |-> status]
Done(op, amount, status, r) ==
    [pc |-> "done", op |-> op, amount |-> amount, status |-> status, res |-> r]

\* POST /api/goals/:id/contribute up to the resolution of await Goal.findOne
ContributeLoad(s, u, id, amount, note) ==
    /\ inflight[s] = Idle
    /\ LET goal == FindOne(goals, id, u)
           early == IF amount.v < 1 THEN ValidationFailed ELSE GoalNotFound
       IN  IF amount.v < 1 \/ ~IsDoc(goal)
           THEN /\ inflight' = [inflight EXCEPT ![s] = Done("contribute", amount, "", early)]
                /\ res' = early
           ELSE /\ inflight' = [inflight EXCEPT
                        ![s] = Loaded("contribute", id, goal, amount, note, "")]
                /\ res' = res
    /\ UNCHANGED <<client, goals, now, expenses, query>>

\* ... and from there on: the status check and addContribution on the
\* document as it was loaded, the save() against the collection as it is now
ContributeSave(s) ==
    /\ inflight[s].pc = "loaded"
    /\ inflight[s].op = "contribute"
    /\ LET r == inflight[s]
           out == ContributeLoaded(goals, now, r.id, r.goal, r.amount, r.note)
       IN  /\ WithinBounds(out.goals)
           /\ goals' = out.goals
           /\ res' = out.res
           /\ inflight' = [inflight EXCEPT ![s] = Done("contribute", r.amount, "", out.res)]
    /\ UNCHANGED <<client, now, expenses, query>>

\* PUT /api/goals/:id/status up to the resolution of await Goal.findOne
StatusLoad(s, u, id, status) ==
    /\ inflight[s] = Idle
    /\ LET goal == FindOne(goals, id, u)
           early == IF status \notin Statuses THEN ValidationFailed ELSE GoalNotFound
       IN  IF status \notin Statuses \/ ~IsDoc(goal)
           THEN /\ inflight' = [inflight EXCEPT ![s] = Done("status", [v |-> 0, str |-> FALSE], status, early)]
                /\ res' = early
           ELSE /\ inflight' = [inflight EXCEPT
                        ![s] = Loaded("status", id, goal, [v |-> 0, str |-> FALSE], "", status)]
                /\ res' = res
    /\ UNCHANGED <<client, goals, now, expenses, query>>

\* ... and from there on
StatusSave(s) ==
    /\ inflight[s].pc = "loaded"
    /\ inflight[s].op = "status"
    /\ LET r == inflight[s]
           out == SetStatusLoaded(goals, now, r.id, r.goal, r.status)
       IN  /\ goals' = out.goals
           /\ res' = out.res
           /\ inflight' = [inflight EXCEPT
                    ![s] = Done("status", r.amount, r.status, out.res)]
    /\ UNCHANGED <<client, now, expenses, query>>

NextRace ==
    \/ \E id \in LedgerIds, body \in PlainCreateBodies : CreateGoal(Owner, id, body)
    \/ \E s \in Slots, u \in Users, id \in LedgerIds, amount \in NumberAmounts, note \in Notes :
            ContributeLoad(s, u, id, amount, note)
    \/ \E s \in Slots : ContributeSave(s)
    \/ \E s \in Slots, u \in Users, id \in LedgerIds, status \in StatusInputs :
            StatusLoad(s, u, id, status)
    \/ \E s \in Slots : StatusSave(s)
    \/ Tick

SpecRace == Init /\ [][NextRace]_vars

(* --- SpecExpense: the expense list over a store filled by Create ----- *)
\* create bodies: three valid ones that differ in every filtered field, one
\* with an amount below the minimum, one with a category outside the enum
ExpenseCreateBodies ==
    {[EmptyExpenseBody EXCEPT !.title = <<TitleBus>>, !.amount = <<1>>,
                              !.category = <<"Travel">>, !.date = <<1>>],
     [EmptyExpenseBody EXCEPT !.title = <<TitleBread>>, !.amount = <<MaxAmount>>,
                              !.category = <<"Groceries">>,
                              !.description = <<TitleBus>>],
     [EmptyExpenseBody EXCEPT !.title = <<TitleBread>>, !.amount = <<1>>,
                              !.category = <<"Groceries">>, !.date = <<2>>],
     [EmptyExpenseBody EXCEPT !.title = <<TitleBread>>, !.amount = <<0>>,
                              !.category = <<"Groceries">>],
     [EmptyExpenseBody EXCEPT !.title = <<TitleBread>>, !.amount = <<1>>,
                              !.category = <<"Bogus">>]}

\* filters: none, and each key at least once
ListFilters ==
    {NoFilterQuery,
     [NoFilterQuery EXCEPT !.category = <<"Travel">>],
     [NoFilterQuery EXCEPT !.startDate = <<1>>, !.endDate = <<1>>],
     [NoFilterQuery EXCEPT !.minAmount = <<MaxAmount>>],
     [NoFilterQuery EXCEPT !.category = <<"Groceries">>, !.maxAmount = <<1>>],
     [NoFilterQuery EXCEPT !.search = <<<<"b">>>>],
     [NoFilterQuery EXCEPT !.search = <<<<"U", "S">>>>]}

\* every filter with every page and page size; the defaults; a page and a
\* page size the validators reject
ListQueries ==
    {[f EXCEPT !.page = <<p>>, !.limit = <<l>>] :
        f \in ListFilters, p \in 1..MaxPage, l \in 1..MaxLimit}
    \cup {NoFilterQuery,
          [NoFilterQuery EXCEPT !.page = <<0>>],
          [NoFilterQuery EXCEPT !.limit = <<0>>]}

\* the store holds up to three expenses
ListedIds == {"e1", "e2", "e3"}
\* the second user records one expense
OtherCreateBodies ==
    {[EmptyExpenseBody EXCEPT !.title = <<TitleBread>>, !.amount = <<MaxAmount>>,
                              !.category = <<"Groceries">>, !.date = <<1>>]}

NextExpense ==
    \/ \E id \in ListedIds, body \in ExpenseCreateBodies :
            CreateExpense(Owner, id, body)
    \/ \E id \in ListedIds, body \in OtherCreateBodies :
            CreateExpense("bob", id, body)
    \/ \E q \in ListQueries : ListExpenses(Owner, q)

SpecExpense == Init /\ [][NextExpense]_vars

(* --- SpecAccess: two users, one goal and one expense, every route ---- *)
AccessExpenseIds == {"e1"}
\* a goal that stays ahead of the clock
AccessGoalBodies ==
    {[EmptyBody EXCEPT !.targetAmount = <<MaxAmount>>, !.targetDate = <<MaxTime + 1>>]}
\* update bodies: none or one key, valid and invalid
AccessGoalUpdates ==
    {EmptyBody,
     [EmptyBody EXCEPT !.targetAmount = <<0>>],
     [EmptyBody EXCEPT !.targetDate = <<0>>],
     [EmptyBody EXCEPT !.status = <<"Paused">>]}
AccessExpenseBodies ==
    {[EmptyExpenseBody EXCEPT !.title = <<TitleBus>>, !.amount = <<1>>,
                              !.category = <<"Travel">>],
     [EmptyExpenseBody EXCEPT !.title = <<TitleBus>>, !.amount = <<0>>,
                              !.category = <<"Travel">>]}
AccessExpenseUpdates ==
    {EmptyExpenseBody,
     [EmptyExpenseBody EXCEPT !.amount = <<0>>],
     [EmptyExpenseBody EXCEPT !.category = <<"Bogus">>],
     [EmptyExpenseBody EXCEPT !.title = <<TitleBread>>]}

NextAccess ==
    \/ \E u \in Users, id \in LedgerIds, body \in AccessGoalBodies :
            CreateGoal(u, id, body)
    \/ \E u \in Users, id \in LedgerIds : GetGoal(u, id)
    \/ \E u \in Users, id \in LedgerIds, body \in AccessGoalUpdates :
            UpdateGoal(u, id, body)
    \/ \E u \in Users, id \in LedgerIds : DeleteGoal(u, id)
    \/ \E u \in Users, id \in LedgerIds, amount \in UnitAmounts, note \in Notes :
            Contribute(u, id, amount, note)
    \/ \E u \in Users, id \in LedgerIds : ListContributions(u, id)
    \/ \E u \in Users, id \in LedgerIds, status \in AccessStatuses :
            SetStatus(u, id, status)
    \/ \E u \in Users, id \in AccessExpenseIds, body \in AccessExpenseBodies :
            CreateExpense(u, id, body)
    \/ \E u \in Users, id \in AccessExpenseIds : GetExpense(u, id)
    \/ \E u \in Users, id \in AccessExpenseIds, body \in AccessExpenseUpdates :
            UpdateExpense(u, id, body)
    \/ \E u \in Users, id \in AccessExpenseIds : DeleteExpense(u, id)

SpecAccess == Init /\ [][NextAccess]_vars

(* --- SpecDashboard: the reports over a store filled by Create -------- *)
\* create bodies: two categories, dated now or on the previous month's
\* first instant
DashboardCreateBodies ==
    {[EmptyExpenseBody EXCEPT !.title = <<TitleBus>>, !.amount = <<1>>,
                              !.category = <<"Travel">>],
     [EmptyExpenseBody EXCEPT !.title = <<TitleBread>>, !.amount = <<MaxAmount>>,
                              !.category = <<"Groceries">>],
     [EmptyExpenseBody EXCEPT !.title = <<TitleBread>>, !.amount = <<1>>,
                              !.category = <<"Groceries">>, !.date = <<0 - MonthTicks>>]}
\* the second user records one expense, dated now
DashboardOtherBodies ==
    {[EmptyExpenseBody EXCEPT !.title = <<TitleBread>>, !.amount = <<MaxAmount>>,
                              !.category = <<"Groceries">>]}
\* the current month; the modelled clock's whole span; from the previous
\* month's first instant to the end of the current month
AnalysisQueries ==
    {NoRange,
     [startDate |-> <<0>>, endDate |-> <<MaxTime>>],
     [startDate |-> <<0 - MonthTicks>>, endDate |-> <<>>]}

NextDashboard ==
    \/ \E id \in ListedIds, body \in DashboardCreateBodies :
            CreateExpense(Owner, id, body)
    \/ \E id \in ListedIds, body \in DashboardOtherBodies :
            CreateExpense("bob", id, body)
    \/ \E q \in AnalysisQueries : CategoryAnalysis(Owner, q)
    \/ Overview(Owner)
    \/ Tick

SpecDashboard == Init /\ [][NextDashboard]_vars

(* --- SpecOverview: one user's month, category after category --------- *)
\* the k-th expense recorded opens the k-th category with amount k, or adds
\* one unit to the first category; no date is sent
OverviewBodies(k) ==
    {[EmptyExpenseBody EXCEPT !.title = <<TitleBus>>, !.amount = <<k>>,
                              !.category = <<CategoryOrder[k]>>],
     [EmptyExpenseBody EXCEPT !.title = <<TitleBus>>, !.amount = <<1>>,
                              !.category = <<CategoryOrder[1]>>]}

NextOverview ==
    \/ \E k \in DOMAIN ExpenseIdOrder : \E body \in OverviewBodies(k) :
            CreateExpense(Owner, ExpenseIdOrder[k], body)
    \/ Overview(Owner)

SpecOverview == Init /\ [][NextOverview]_vars

(* --- SpecTrends: spending trends over a store filled by Create ------- *)
\* an expense dated now, one dated seven days before the clock's origin,
\* one dated after the clock's last instant
TrendCreateBodies ==
    {[EmptyExpenseBody EXCEPT !.title = <<TitleBus>>, !.amount = <<1>>,
                              !.category = <<"Travel">>],
     [EmptyExpenseBody EXCEPT !.title = <<TitleBread>>, !.amount = <<MaxAmount>>,
                              !.category = <<"Groceries">>,
                              !.date = <<0 - PeriodDays("7days") * DayTicks>>],
     [EmptyExpenseBody EXCEPT !.title = <<TitleBread>>, !.amount = <<1>>,
                              !.category = <<"Groceries">>, !.date = <<MaxTime + 1>>]}
TrendQueries ==
    {NoTrendQuery,
     [period |-> <<"7days">>, groupBy |-> <<"day">>],
     [period |-> <<"7days">>, groupBy |-> <<"month">>],
     [period |-> <<"90days">>, groupBy |-> <<"week">>],
     [period |-> <<"1year">>, groupBy |-> <<"week">>],
     [period |-> <<"2years">>, groupBy |-> <<>>]}

NextTrends ==
    \/ \E id \in ListedIds, body \in TrendCreateBodies :
            CreateExpense(Owner, id, body)
    \/ \E id \in ListedIds, body \in DashboardOtherBodies :
            CreateExpense("bob", id, body)
    \/ \E q \in TrendQueries : SpendingTrends(Owner, q)
    \/ Tick

SpecTrends == Init /\ [][NextTrends]_vars

(* --- SpecProgress: goals progress over goals that receive money ------ *)
\* goals of three units due after the clock's last instant, empty or
\* seeded with one unit; a goal seeded above its target and due at instant
\* 1; a goal due three days after the clock's last instant
ProgressCreateBodies ==
    {[EmptyBody EXCEPT !.targetAmount = <<MaxAmount + 1>>,
                       !.targetDate = <<MaxTime + 1>>],
     [EmptyBody EXCEPT !.targetAmount = <<MaxAmount + 1>>,
                       !.currentAmount = <<1>>,
                       !.targetDate = <<MaxTime + 1>>],
     [EmptyBody EXCEPT !.targetAmount = <<MaxAmount + 1>>,
                       !.currentAmount = <<MaxAmount + 2>>,
                       !.targetDate = <<1>>],
     [EmptyBody EXCEPT !.targetAmount = <<MaxAmount>>,
                       !.targetDate = <<MaxTime + 3 * DayTicks>>]}

NextProgress ==
    \/ \E u \in Users, id \in GoalIds, body \in ProgressCreateBodies :
            CreateGoal(u, id, body)
    \/ \E id \in GoalIds, amount \in UnitAmounts, note \in Notes :
            Contribute(Owner, id, amount, note)
    \/ GoalsProgress(Owner)
    \/ Tick

SpecProgress == Init /\ [][NextProgress]_vars

(* --- SpecDelete: two users, two goals, two expenses, the reads ------- *)
DeleteExpenseIds == {"e1", "e2"}
DeleteExpenseBodies ==
    {[EmptyExpenseBody EXCEPT !.title = <<TitleBus>>, !.amount = <<1>>,
                              !.category = <<"Travel">>]}
GoalFilters == {NoGoalFilter, [status |-> <<"Active">>], [status |-> <<"Archived">>]}

NextDelete ==
    \/ \E u \in Users, id \in GoalIds, body \in AccessGoalBodies :
            CreateGoal(u, id, body)
    \/ \E u \in Users, id \in GoalIds : GetGoal(u, id)
    \/ \E u \in Users, id \in GoalIds : DeleteGoal(u, id)
    \/ \E u \in Users, q \in GoalFilters : ListGoals(u, q)
    \/ \E u \in Users, id \in DeleteExpenseIds, body \in DeleteExpenseBodies :
            CreateExpense(u, id, body)
    \/ \E u \in Users, id \in DeleteExpenseIds : GetExpense(u, id)
    \/ \E u \in Users, id \in DeleteExpenseIds : DeleteExpense(u, id)
    \/ \E u \in Users : ListExpenses(u, NoFilterQuery)

SpecDelete == Init /\ [][NextDelete]_vars

(* --- SpecWrites: expenses under Create, Update and Delete ------------ *)
\* create bodies: two valid ones, a zero amount, a label outside the enum
WriteCreateBodies ==
    {[EmptyExpenseBody EXCEPT !.title = <<TitleBus>>, !.amount = <<1>>,
                              !.category = <<"Travel">>],
     [EmptyExpenseBody EXCEPT !.title = <<TitleBread>>, !.amount = <<MaxAmount>>,
                              !.category = <<"Groceries">>],
     [EmptyExpenseBody EXCEPT !.title = <<TitleBus>>, !.amount = <<0>>,
                              !.category = <<"Travel">>],
     [EmptyExpenseBody EXCEPT !.title = <<TitleBus>>, !.amount = <<1>>,
                              !.category = <<"Bogus">>]}
\* update bodies: none or one key, valid and invalid
WriteUpdateBodies ==
    {EmptyExpenseBody,
     [EmptyExpenseBody EXCEPT !.amount = <<0>>],
     [EmptyExpenseBody EXCEPT !.amount = <<MaxAmount>>],
     [EmptyExpenseBody EXCEPT !.category = <<"Bogus">>],
     [EmptyExpenseBody EXCEPT !.category = <<"Groceries">>]}

NextWrites ==
    \/ \E u \in Users, id \in DeleteExpenseIds, body \in WriteCreateBodies :
            CreateExpense(u, id, body)
    \/ \E u \in Users, id \in DeleteExpenseIds, body \in WriteUpdateBodies :
            UpdateExpense(u, id, body)
    \/ \E u \in Users, id \in DeleteExpenseIds : DeleteExpense(u, id)

SpecWrites == Init /\ [][NextWrites]_vars

(* --- SpecAuth: requests arriving with every kind of credential ------- *)
GoodToken(u) == [signed |-> TRUE, expired |-> FALSE, userId |-> u]
\* no header; a forged, an expired and a former user's token; each user's
\* token, the first user's also without the 'Bearer ' prefix
SentCredentials ==
    {NoHeader,
     [present |-> TRUE, bearer |-> TRUE,
      token |-> [GoodToken("alice") EXCEPT !.signed = FALSE]],
     [present |-> TRUE, bearer |-> TRUE,
      token |-> [GoodToken("alice") EXCEPT !.expired = TRUE]],
     [present |-> TRUE, bearer |-> TRUE, token |-> GoodToken("carol")],
     [present |-> TRUE, bearer |-> TRUE, token |-> GoodToken("alice")],
     [present |-> TRUE, bearer |-> FALSE, token |-> GoodToken("alice")],
     [present |-> TRUE, bearer |-> TRUE, token |-> GoodToken("bob")]}

NextAuth ==
    \/ \E cred \in SentCredentials, id \in LedgerIds, body \in AccessGoalBodies :
            AuthCreateGoal(cred, id, body)
    \/ \E cred \in SentCredentials, id \in LedgerIds : AuthGetGoal(cred, id)
    \/ \E cred \in SentCredentials, id \in LedgerIds, amount \in UnitAmounts, note \in Notes :
            AuthContribute(cred, id, amount, note)
    \/ \E cred \in SentCredentials, id \in DeleteExpenseIds, body \in DeleteExpenseBodies :
            AuthCreateExpense(cred, id, body)
    \/ \E cred \in SentCredentials, id \in DeleteExpenseIds : AuthGetExpense(cred, id)
    \/ \E cred \in SentCredentials, id \in DeleteExpenseIds : AuthDeleteExpense(cred, id)

SpecAuth == Init /\ [][NextAuth]_vars

(* --- SpecContributions: one goal, its contributions and their list --- *)
\* a goal of one unit more than the largest single contribution, due after
\* the clock's last instant
ContributionGoalBodies ==
    {[EmptyBody EXCEPT !.targetAmount = <<MaxAmount + 1>>,
                       !.targetDate = <<MaxTime + 1>>]}

NextContributions ==
    \/ \E id \in LedgerIds, body \in ContributionGoalBodies :
            CreateGoal(Owner, id, body)
    \/ \E id \in LedgerIds, amount \in NumberAmounts, note \in Notes :
            Contribute(Owner, id, amount, note)
    \/ \E u \in Users, id \in LedgerIds : ListContributions(u, id)
    \/ Tick

SpecContributions == Init /\ [][NextContributions]_vars

(* --- SpecReport: monthly reports over a store filled by Create ------- *)
\* the current month; the clock's first month and the month before it,
\* named; a month outside 1..12
ReportQueries ==
    {NoReportQuery,
     [year |-> <<ClockYear>>, month |-> <<1>>],
     [year |-> <<ClockYear - 1>>, month |-> <<YearMonths>>],
     [year |-> <<>>, month |-> <<YearMonths + 1>>]}

NextReport ==
    \/ \E id \in ListedIds, body \in DashboardCreateBodies :
            CreateExpense(Owner, id, body)
    \/ \E id \in ListedIds, body \in DashboardOtherBodies :
            CreateExpense("bob", id, body)
    \/ \E q \in ReportQueries : MonthlyReport(Owner, q)
    \/ Tick

SpecReport == Init /\ [][NextReport]_vars

(* --- SpecOwner: two users' writes, with bodies that carry 'user' ----- *)
OwnerGoalIds == {"g1"}
OwnerExpenseIds == {"e1"}
OwnerGoalCreateBodies ==
    {[EmptyBody EXCEPT !.targetAmount = <<MaxAmount>>, !.targetDate = <<MaxTime + 1>>,
                       !.user = user] : user \in Opt(Users)}
OwnerGoalUpdateBodies ==
    {[EmptyBody EXCEPT !.currentAmount = <<1>>]} \cup
    {[EmptyBody EXCEPT !.user = <<u>>] : u \in Users}
OwnerExpenseCreateBodies ==
    {[EmptyExpenseBody EXCEPT !.title = <<TitleBus>>, !.amount = <<1>>,
                              !.category = <<"Travel">>, !.user = user] :
        user \in Opt(Users)}
OwnerExpenseUpdateBodies ==
    {[EmptyExpenseBody EXCEPT !.amount = <<MaxAmount>>]} \cup
    {[EmptyExpenseBody EXCEPT !.user = <<u>>] : u \in Users}

NextOwner ==
    \/ \E u \in Users, id \in OwnerGoalIds, body \in OwnerGoalCreateBodies :
            CreateGoal(u, id, body)
    \/ \E u \in Users, id \in OwnerGoalIds, body \in OwnerGoalUpdateBodies :
            UpdateGoal(u, id, body)
    \/ \E u \in Users, id \in OwnerGoalIds, status \in AccessStatuses :
            SetStatus(u, id, status)
    \/ \E u \in Users, id \in OwnerGoalIds, amount \in UnitAmounts, note \in Notes :
            Contribute(u, id, amount, note)
    \/ \E u \in Users, id \in OwnerExpenseIds, body \in OwnerExpenseCreateBodies :
            CreateExpense(u, id, body)
    \/ \E u \in Users, id \in OwnerExpenseIds, body \in OwnerExpenseUpdateBodies :
            UpdateExpense(u, id, body)
    \/ Tick

SpecOwner == Init /\ [][NextOwner]_vars

(* --- SpecClient: the browser's requests through the API client ------- *)
NextClient ==
    \/ \E token \in StoredTokens : StoreToken(token)
    \/ SendRequest
    \/ \E o \in Outcomes : ReceiveResponse(o)
    \/ FollowHref
    \/ \E path \in Paths : Navigate(path)

SpecClient == Init /\ [][NextClient]_vars

(* ------------------------------ claims ------------------------------- *)
Owns(u, id) == IsDoc(goals[id]) /\ goals[id].user = u
ContributionAdded == Res(200, "Contribution added successfully")

\* C1: for every goal, after any sequence of AddContribution calls, the
\* goal's currentAmount equals the sum of the amounts of the contributions
\* recorded for it.
C1_CurrentAmountIsSumOfContributions ==
    \A id \in LedgerIds :
        IsDoc(goals[id]) =>
            goals[id].currentAmount = SumAmounts(goals[id].contributions)

\* C2: a contribution to an Active goal below its target leaves the goal
\* Active while currentAmount stays below targetAmount and makes it
\* Completed exactly when currentAmount reaches or passes targetAmount.
C2_CompletedExactlyWhenTargetReached ==
    [][\A id \in LedgerIds :
          (/\ IsDoc(goals[id])
           /\ goals[id].status = "Active"
           /\ goals[id].currentAmount < goals[id].targetAmount)
          => \A u \in Users, amount \in AmountInputs, note \in Notes :
                Contribute(u, id, amount, note)
                => /\ IsDoc(goals'[id])
                   /\ goals'[id].status =
                          IF goals'[id].currentAmount >= goals'[id].targetAmount
                          THEN "Completed" ELSE "Active"
                   /\ res' = ContributionAdded =>
                          /\ goals'[id].currentAmount > goals[id].currentAmount
                          /\ Len(goals'[id].contributions) =
                                Len(goals[id].contributions) + 1]_vars

\* a second contribution has just landed exactly on the target
C2_Witness ==
    /\ res = ContributionAdded
    /\ IsDoc(goals["g1"])
    /\ Len(goals["g1"].contributions) = 2
    /\ goals["g1"].contributions[1].amount < goals["g1"].targetAmount
    /\ goals["g1"].currentAmount = goals["g1"].targetAmount
    /\ goals["g1"].status = "Completed"

\* C3: AddContribution by the owner, with a valid amount, on a goal that is
\* Completed, Paused or Cancelled answers 400 "Cannot contribute to inactive
\* goal" and changes nothing of the goal.
C3_InactiveGoalRejectsContribution ==
    [][\A u \in Users, id \in LedgerIds :
          (Owns(u, id) /\ goals[id].status # "Active")
          => \/ res' = InactiveGoal /\ goals' = goals
             \/ \A amount \in AmountInputs, note \in Notes :
                    ~(amount.v >= 1 /\ Contribute(u, id, amount, note))]_vars

\* a contribution to a Paused goal that holds a contribution was just refused
C3_Witness ==
    /\ res = InactiveGoal
    /\ IsDoc(goals["g1"])
    /\ goals["g1"].status = "Paused"
    /\ Len(goals["g1"].contributions) = 1

\* the body passes the route's express-validator chain
ValidUpdateBody(body) == ~(Has(body.targetAmount) /\ Val(body.targetAmount) < 1)
ValidCreateBody(body) ==
    /\ Has(body.targetAmount) /\ Val(body.targetAmount) >= 1
    /\ Has(body.targetDate)
GoalUpdated == Res(200, "Goal updated successfully")

\* C4: when the AddContribution requests on an Active goal that starts at
\* currentAmount 0 have all completed successfully, however their reads and
\* saves interleave, currentAmount has grown by the sum of their amounts and
\* each of them has its contribution recorded.
C4_NoLostIncrement ==
    (\A s \in Slots :
        /\ inflight[s].pc = "done"
        /\ inflight[s].op = "contribute"
        /\ inflight[s].res = ContributionAdded)
    => /\ goals["g1"].currentAmount =
              inflight["r1"].amount.v + inflight["r2"].amount.v
       /\ Len(goals["g1"].contributions) = Cardinality(Slots)

\* the store without the document id
Without(store, id) == [store EXCEPT ![id] = Unused]
\* id exists in the store and belongs to somebody other than u
Foreign(store, u, id) == IsDoc(store[id]) /\ store[id].user # u

\* C5: a Get, Update, Delete, AddContribution, ListContributions or SetStatus
\* request on a goal or expense that exists but belongs to another user
\* leaves both collections unchanged and is answered exactly as the same
\* request on an id that does not exist: 404 Not Found whenever the request
\* passes the field validators.
C5_ForeignIdLooksAbsent ==
    [][\A u \in Users :
        /\ \A id \in LedgerIds : Foreign(goals, u, id) =>
            LET absent == Without(goals, id) IN
            /\ GetGoal(u, id) =>
                  /\ res' = GoalNotFound
                  /\ res' = GetGoalHandler(absent, now, u, id).res
                  /\ UNCHANGED <<client, goals, expenses>>
            /\ DeleteGoal(u, id) =>
                  /\ res' = GoalNotFound
                  /\ res' = DeleteGoalHandler(absent, now, u, id).res
                  /\ UNCHANGED <<client, goals, expenses>>
            /\ ListContributions(u, id) =>
                  /\ res' = GoalNotFound
                  /\ res' = ListContributionsHandler(absent, now, u, id).res
                  /\ UNCHANGED <<client, goals, expenses>>
            /\ \A body \in AccessGoalUpdates : UpdateGoal(u, id, body) =>
                  /\ ValidUpdateBody(body) => res' = GoalNotFound
                  /\ res' = UpdateGoalHandler(absent, now, u, id, body).res
                  /\ UNCHANGED <<client, goals, expenses>>
            /\ \A amount \in UnitAmounts, note \in Notes :
                  Contribute(u, id, amount, note) =>
                      /\ amount.v >= 1 => res' = GoalNotFound
                      /\ res' = ContributeHandler(absent, now, u, id, amount, note).res
                      /\ UNCHANGED <<client, goals, expenses>>
            /\ \A status \in AccessStatuses : SetStatus(u, id, status) =>
                  /\ status \in Statuses => res' = GoalNotFound
                  /\ res' = SetStatusHandler(absent, now, u, id, status).res
                  /\ UNCHANGED <<client, goals, expenses>>
        /\ \A id \in AccessExpenseIds : Foreign(expenses, u, id) =>
            LET absent == Without(expenses, id) IN
            /\ GetExpense(u, id) =>
                  /\ res' = ExpenseNotFound
                  /\ res' = GetExpenseHandler(absent, now, u, id).res
                  /\ UNCHANGED <<client, goals, expenses>>
            /\ DeleteExpense(u, id) =>
                  /\ res' = ExpenseNotFound
                  /\ res' = DeleteExpenseHandler(absent, now, u, id).res
                  /\ UNCHANGED <<client, goals, expenses>>
            /\ \A body \in AccessExpenseUpdates : UpdateExpense(u, id, body) =>
                  /\ (~(Has(body.amount) /\ Val(body.amount) < 1)) =>
                        res' = ExpenseNotFound
                  /\ res' = UpdateExpenseHandler(absent, now, u, id, body).res
                  /\ UNCHANGED <<client, goals, expenses>>]_vars
\* a request on the one stored goal, which has a recorded contribution, was
\* answered 404 while another user's expense is stored as well
C5_Witness ==
    /\ res = GoalNotFound
    /\ IsDoc(goals["g1"])
    /\ goals["g1"].contributions # <<>>
    /\ IsDoc(expenses["e1"])
    /\ expenses["e1"].user # goals["g1"].user

\* C6: an Update by the owner that does not carry targetDate, on a goal
\* whose targetDate has passed, is not rejected: it answers 200 and the
\* provided fields are merged and persisted.
C6_OverdueGoalCanBeUpdated ==
    [][\A u \in Users, id \in LedgerIds :
          (Owns(u, id) /\ goals[id].targetDate < now) =>
              \A body \in UpdateBodies :
                  (/\ ValidUpdateBody(body)
                   /\ ~Has(body.targetDate)
                   /\ UpdateGoal(u, id, body))
                  => /\ res' = GoalUpdated
                     /\ goals'[id] = AutoComplete(MergeBody(goals[id], body))]_vars

\* C7: goal Create with a targetDate not strictly after the current instant
\* answers 400 "Target date must be in the future" and persists no goal; an
\* Update by the owner that sets such a targetDate answers the same and
\* leaves the stored goal unchanged.
C7_NonFutureTargetDateRejected ==
    [][\A u \in Users, id \in LedgerIds :
          /\ goals[id] = Unused =>
                \A body \in SeededCreateBodies :
                    (/\ ValidCreateBody(body)
                     /\ Val(body.targetDate) <= now
                     /\ CreateGoal(u, id, body))
                    => /\ res' = DateNotFuture
                       /\ goals' = goals
          /\ Owns(u, id) =>
                \A date \in 0..now :
                    UpdateGoal(u, id, [EmptyBody EXCEPT !.targetDate = <<date>>])
                    => /\ res' = DateNotFuture
                       /\ goals' = goals]_vars

\* an Update was refused for its target date at an instant after creation,
\* the stored goal still being in the future
C7_Witness ==
    /\ res = DateNotFuture
    /\ now > 0
    /\ IsDoc(goals["g1"])
    /\ goals["g1"].targetDate > now

\* C8: a recorded contribution is never altered or removed while its goal
\* exists: across every Update, SetStatus and AddContribution request the
\* goal's earlier contributions stay, in place, with the same amount, date
\* and note.
C8_ContributionsAreImmutable ==
    [][\A id \in LedgerIds :
          (IsDoc(goals[id]) /\ IsDoc(goals'[id]))
          => IsPrefix(goals[id].contributions, goals'[id].contributions)]_vars

IsListResponse(r) == "pagination" \in DOMAIN r

\* the requester's expenses that satisfy the query's filter keys
InFilter(doc, u, q) ==
    /\ doc.user = u
    /\ Has(q.category) => doc.category = Val(q.category)
    /\ Has(q.startDate) => doc.date >= Val(q.startDate)
    /\ Has(q.endDate) => doc.date <= Val(q.endDate)
    /\ Has(q.minAmount) => doc.amount >= Val(q.minAmount)
    /\ Has(q.maxAmount) => doc.amount <= Val(q.maxAmount)
    /\ Has(q.search) =>
          \/ RegexMatch(doc.title, Val(q.search))
          \/ Has(doc.description) /\ RegexMatch(Val(doc.description), Val(q.search))
FilteredSet(u, q) ==
    {id \in ExpenseIds : IsDoc(expenses[id]) /\ InFilter(expenses[id], u, q)}

IsAnalysisResponse(r) == "categoryCount" \in DOMAIN r

RECURSIVE SumShares(_)
\* the sum of the numerators of the rows' percentage shares (the rows of
\* one response share the denominator)
SumShares(rows) ==
    IF rows = <<>> THEN 0 ELSE rows[1].percentage.num + SumShares(Tail(rows))

\* C11: in every Category analysis response the categories' totalAmount
\* values sum to totalSpent; the percentage shares sum to 100 when totalSpent
\* is > 0, and every share is 0 when it is 0 (then no category is returned).
C11_AnalysisSharesSumTo100 ==
    IsAnalysisResponse(res) =>
        /\ SumTotals(res.categories) = res.totalSpent
        /\ res.totalSpent =
              SumOver(expenses, {id \in ExpenseIds :
                  /\ IsDoc(expenses[id])
                  /\ expenses[id].user = query.user
                  /\ expenses[id].date >= res.dateRange.startDate
                  /\ expenses[id].date <= res.dateRange.endDate})
        /\ \A i \in DOMAIN res.categories :
              /\ res.categories[i].percentage.den = Max(res.totalSpent, 1)
              /\ res.categories[i].percentage.num = 100 * res.categories[i].totalAmount
        /\ res.totalSpent > 0 => SumShares(res.categories) = 100 * res.totalSpent
        /\ res.totalSpent = 0 =>
              \A i \in DOMAIN res.categories : res.categories[i].percentage.num = 0
\* two categories share the period's spending unevenly while another user's
\* expense is stored in the same period
C11_Witness ==
    /\ IsAnalysisResponse(res)
    /\ res.categoryCount = 2
    /\ res.categories[1].totalAmount > res.categories[2].totalAmount
    /\ \E id \in ListedIds : IsDoc(expenses[id]) /\ expenses[id].user # query.user

IsOverviewResponse(r) == "categoryBreakdown" \in DOMAIN r

\* C12: in every Overview response the percentage shares of
\* categoryBreakdown sum to 100 when the month's total spending is > 0, and
\* to 0 when it is 0.
C12_OverviewSharesSumTo100 ==
    IsOverviewResponse(res) =>
        /\ res.currentMonth.totalExpenses > 0 =>
              SumShares(res.categoryBreakdown) = 100 * res.currentMonth.totalExpenses
        /\ res.currentMonth.totalExpenses = 0 =>
              SumShares(res.categoryBreakdown) = 0

\* what u spent, in category c or in any, on dates lo..hi
Spent(u, lo, hi) ==
    SumOver(expenses, {id \in ExpenseIds :
        /\ IsDoc(expenses[id])
        /\ expenses[id].user = u
        /\ expenses[id].date >= lo
        /\ expenses[id].date <= hi})
SpentOn(u, c, lo, hi) ==
    SumOver(expenses, {id \in ExpenseIds :
        /\ IsDoc(expenses[id])
        /\ expenses[id].user = u
        /\ expenses[id].category = c
        /\ expenses[id].date >= lo
        /\ expenses[id].date <= hi})

\* C13: an Overview answered while the requester has no expense dated in
\* the previous calendar month reports monthOverMonthChange exactly 0; a
\* Category analysis reports changePercentage exactly 0 for every category
\* the requester spent nothing on in the previous period (the requested
\* range shifted back by its own length).
C13_NoPreviousSpendingMeansZeroChange ==
    [][\A u \in Users :
          /\ Spent(u, StartOfPreviousMonth(now), StartOfMonth(now) - 1) = 0 =>
                (Overview(u) =>
                    res'.currentMonth.monthOverMonthChange = Ratio(0, 1))
          /\ \A q \in AnalysisQueries :
                CategoryAnalysis(u, q) =>
                    \A i \in DOMAIN res'.categories :
                        SpentOn(u, res'.categories[i]._id,
                                2 * AnalysisStart(now, q) - AnalysisEnd(now, q),
                                AnalysisStart(now, q)) = 0
                        => res'.categories[i].changePercentage = Ratio(0, 1)]_vars
\* an Overview of a month with spending, nothing being dated before the
\* clock's first month
C13_Witness ==
    /\ IsOverviewResponse(res)
    /\ res.currentMonth.totalExpenses > 0
    /\ res.currentMonth.monthOverMonthChange = Ratio(0, 1)
    /\ now < MonthTicks
    /\ \A id \in ExpenseIds : IsDoc(expenses[id]) => expenses[id].date >= 0

\* the requester's expenses stored with date = the creation instant, in
\* the calendar month of the clock
DatedAtCreation(u) ==
    {id \in ExpenseIds :
        /\ IsDoc(expenses[id])
        /\ expenses[id].user = u
        /\ expenses[id].date = expenses[id].createdAt
        /\ StartOfMonth(expenses[id].date) = StartOfMonth(now)}

\* C14: an Overview counts, in the current month's totals and in the
\* category breakdown, every expense of the requester that was stored with
\* date = its creation instant earlier in the same calendar month, whatever
\* that instant was (the month's last day included).
C14_UndatedExpenseCountsInItsMonth ==
    [][\A u \in Users :
          Overview(u) =>
              /\ res'.currentMonth.transactionCount >= Cardinality(DatedAtCreation(u))
              /\ res'.currentMonth.totalExpenses >= SumOver(expenses, DatedAtCreation(u))
              /\ \A id \in DatedAtCreation(u) :
                    \E i \in DOMAIN res'.categoryBreakdown :
                        res'.categoryBreakdown[i]._id = expenses[id].category]_vars

IsTrendsResponse(r) == "trends" \in DOMAIN r

\* C15: in a Spending trends answer, summary.totalPeriods is the number of
\* buckets, summary.totalAmount is the sum of the bucket totals and the sum
\* of the requester's expenses dated from the period's start to the
\* request's instant, and averagePerPeriod is totalAmount / totalPeriods;
\* with no expense in that range the bucket list is empty and totalAmount
\* and averagePerPeriod are 0.
C15_TrendSummaryMatchesBuckets ==
    [][\A u \in Users, q \in TrendQueries :
          (SpendingTrends(u, q) /\ IsTrendsResponse(res')) =>
              LET inRange == Spent(u, TrendStart(now, PeriodOf(q)), now)
              IN  /\ res'.summary.totalPeriods = Len(res'.trends)
                  /\ res'.summary.totalAmount = SumTotals(res'.trends)
                  /\ res'.summary.totalAmount = inRange
                  /\ Len(res'.trends) > 0 =>
                        res'.summary.averagePerPeriod =
                            Ratio(res'.summary.totalAmount, res'.summary.totalPeriods)
                  /\ inRange = 0 =>
                        /\ res'.trends = <<>>
                        /\ res'.summary.totalAmount = 0
                        /\ res'.summary.averagePerPeriod = Ratio(0, 1)]_vars
\* an answer of two buckets or more that leaves some of the requester's
\* expenses out
C15_Witness ==
    /\ IsTrendsResponse(res)
    /\ Len(res.trends) >= 2
    /\ res.summary.totalAmount <
          SumOver(expenses, {id \in ExpenseIds :
              IsDoc(expenses[id]) /\ expenses[id].user = query.user})

\* C16: Goals progress reports isOnTrack true for every goal of the
\* requester with createdAt < targetDate whose share of the target saved,
\* currentAmount / targetAmount, is at least the share of the time elapsed,
\* (now - createdAt) / (targetDate - createdAt); equal shares are on track.
C16_OnTrackWhenSavedShareCoversElapsedShare ==
    [][\A u \in Users :
          GoalsProgress(u) =>
              \A id \in DOMAIN res'.goals :
                  (/\ goals[id].createdAt < goals[id].targetDate
                   /\ goals[id].currentAmount * (goals[id].targetDate - goals[id].createdAt)
                        >= (now - goals[id].createdAt) * goals[id].targetAmount)
                  => res'.goals[id].isOnTrack]_vars

\* C17: SetStatus by the owner, to any of Active, Completed, Paused and
\* Cancelled, on a goal in any of these statuses, succeeds and leaves the
\* goal with the new status and with currentAmount, targetAmount,
\* targetDate and contributions as they were.
C17_SetStatusOverwritesUnconditionally ==
    [][\A u \in Users, id \in LedgerIds :
          Owns(u, id) =>
              \A status \in Statuses :
                  SetStatus(u, id, status) =>
                      /\ res'.code = 200
                      /\ goals'[id] = [goals[id] EXCEPT !.status = status]]_vars

IsGoalListResponse(r) == "statistics" \in DOMAIN r

\* C18: a successful Delete removes the owner's record and nothing else;
\* from then on the record stays removed, Get answers NotFound, no List
\* returns it, and a repeated Delete answers NotFound and changes nothing.
\* This holds for goals and for expenses.
C18_DeleteRemovesOnlyTheRecord ==
    [][/\ \A id \in GoalIds :
            /\ goals[id] = Deleted =>
                  /\ goals'[id] = Deleted
                  /\ IsGoalListResponse(res') =>
                        \A i \in DOMAIN res'.goals : res'.goals[i]._id # id
                  /\ \A u \in Users :
                        /\ GetGoal(u, id) => res' = GoalNotFound
                        /\ DeleteGoal(u, id) =>
                              /\ res' = GoalNotFound
                              /\ goals' = goals
                              /\ expenses' = expenses
            /\ IsDoc(goals[id]) =>
                  \A u \in Users :
                      (DeleteGoal(u, id) /\ res'.code = 200) =>
                          /\ goals[id].user = u
                          /\ goals' = [goals EXCEPT ![id] = Deleted]
                          /\ expenses' = expenses
       /\ \A id \in DeleteExpenseIds :
            /\ expenses[id] = Deleted =>
                  /\ expenses'[id] = Deleted
                  /\ IsListResponse(res') =>
                        \A i \in DOMAIN res'.expenses : res'.expenses[i]._id # id
                  /\ \A u \in Users :
                        /\ GetExpense(u, id) => res' = ExpenseNotFound
                        /\ DeleteExpense(u, id) =>
                              /\ res' = ExpenseNotFound
                              /\ goals' = goals
                              /\ expenses' = expenses
            /\ IsDoc(expenses[id]) =>
                  \A u \in Users :
                      (DeleteExpense(u, id) /\ res'.code = 200) =>
                          /\ expenses[id].user = u
                          /\ expenses' = [expenses EXCEPT ![id] = Deleted]
                          /\ goals' = goals]_vars
\* a request for a deleted expense was answered NotFound while a deleted
\* goal's neighbour and the deleted expense's neighbour both survive
C18_Witness ==
    /\ res = ExpenseNotFound
    /\ goals["g1"] = Deleted
    /\ IsDoc(goals["g2"])
    /\ expenses["e1"] = Deleted
    /\ IsDoc(expenses["e2"])
    /\ expenses["e2"].user = "alice"

\* the body's amount or category, where present, breaks a constraint
BreaksConstraint(body) ==
    \/ Has(body.amount) /\ Val(body.amount) < 1
    \/ Has(body.category) /\ Val(body.category) \notin Categories

\* C19: after every request every persisted expense has amount > 0 and a
\* category among the 15 labels; a Create, or an Update of an expense of
\* the requester, whose amount or category breaks a constraint answers 400
\* "Validation failed" and leaves the persisted expenses as they were.
C19_ExpenseConstraintsHoldAtEveryWrite ==
    [][/\ \A id \in DeleteExpenseIds :
            IsDoc(expenses'[id]) =>
                /\ expenses'[id].amount >= 1
                /\ expenses'[id].category \in Categories
       /\ \A u \in Users, id \in DeleteExpenseIds :
            /\ \A body \in WriteCreateBodies :
                  (BreaksConstraint(body) /\ CreateExpense(u, id, body)) =>
                      res' = ValidationFailed /\ expenses' = expenses
            /\ (IsDoc(expenses[id]) /\ expenses[id].user = u) =>
                  \A body \in WriteUpdateBodies :
                      (BreaksConstraint(body) /\ UpdateExpense(u, id, body)) =>
                          res' = ValidationFailed /\ expenses' = expenses]_vars
\* a write was refused while both expenses exist, one of them updated to a
\* second category
C19_Witness ==
    /\ res = ValidationFailed
    /\ IsDoc(expenses["e1"])
    /\ IsDoc(expenses["e2"])
    /\ expenses["e1"].category = "Groceries"
    /\ expenses["e1"].title = TitleBus

\* the credential is a token with a matching signature, not expired, whose
\* userId names a user of the User collection
Verified(cred) ==
    /\ cred.present
    /\ cred.token.signed
    /\ ~cred.token.expired
    /\ cred.token.userId \in Users

IsContributionsResponse(r) == "totalContributions" \in DOMAIN r

\* the one-to-one maps of 1..n onto itself
Rearrangements(n) ==
    {p \in [1..n -> 1..n] : \A i, j \in 1..n : i # j => p[i] # p[j]}

\* C21: a ListContributions answer holds every contribution of the goal,
\* ordered by date from the newest to the oldest, with totalContributions
\* their number and totalAmount the sum of their amounts; for a goal that
\* received two contributions adding up to its target, the second at a
\* later instant than the first, the goal is Completed with currentAmount
\* equal to the target and the list gives the second amount, then the first.
C21_ContributionsListedNewestFirst ==
    IsContributionsResponse(res) =>
        LET goal == goals["g1"]
            list == res.contributions
        IN  /\ IsDoc(goal)
            /\ Len(list) = Len(goal.contributions)
            /\ \E p \in Rearrangements(Len(list)) :
                  \A i \in DOMAIN list : list[i] = goal.contributions[p[i]]
            /\ \A i, j \in DOMAIN list : i < j => list[i].date >= list[j].date
            /\ res.totalContributions = Len(goal.contributions)
            /\ res.totalAmount = SumAmounts(goal.contributions)
            /\ (/\ Len(goal.contributions) = 2
                /\ goal.contributions[1].date < goal.contributions[2].date
                /\ goal.contributions[1].amount + goal.contributions[2].amount
                      = goal.targetAmount)
               => /\ goal.status = "Completed"
                  /\ goal.currentAmount = goal.targetAmount
                  /\ list[1].amount = goal.contributions[2].amount
                  /\ list[2].amount = goal.contributions[1].amount
\* the list of a goal completed by a smaller and then, later, a larger
\* contribution
C21_Witness ==
    /\ IsContributionsResponse(res)
    /\ Len(res.contributions) = 2
    /\ res.contributions[1].date > res.contributions[2].date
    /\ res.contributions[1].amount > res.contributions[2].amount
    /\ goals["g1"].status = "Completed"
    /\ goals["g1"].currentAmount = goals["g1"].targetAmount

\* C22: no persisted goal is Active while its currentAmount has reached its
\* targetAmount.
C22_NoActiveGoalAtOrAboveTarget ==
    \A id \in GoalIds :
        IsDoc(goals[id]) =>
            ~(goals[id].status = "Active"
              /\ goals[id].currentAmount >= goals[id].targetAmount)

\* C23: a Completed goal stays Completed under every Update whose body
\* carries no status, also when the Update lowers currentAmount below
\* targetAmount or raises targetAmount above currentAmount; while the goal
\* exists its status leaves Completed only in a SetStatus or in an Update
\* whose body carries a status.
C23_CompletedIsNeverReversedAutomatically ==
    [][\A id \in LedgerIds :
          (IsDoc(goals[id]) /\ goals[id].status = "Completed") =>
              /\ \/ IsDoc(goals'[id]) /\ goals'[id].status = "Completed"
                 \/ \A body \in UpdateBodies :
                        ~(~Has(body.status) /\ UpdateGoal(Owner, id, body))
              /\ (IsDoc(goals'[id]) /\ goals'[id].status # "Completed") =>
                    \/ \E status \in AccessStatuses : SetStatus(Owner, id, status)
                    \/ \E body \in UpdateBodies :
                          Has(body.status) /\ UpdateGoal(Owner, id, body)]_vars
\* an Update has just left a Completed goal below its target
C23_Witness ==
    /\ res = GoalUpdated
    /\ IsDoc(goals["g1"])
    /\ goals["g1"].status = "Completed"
    /\ goals["g1"].currentAmount < goals["g1"].targetAmount

\* C24: in a Category analysis no expense is counted both in a category's
\* totalAmount and in its previousPeriodAmount: together the two amounts
\* are what the requester spent on the category from the start of the
\* comparison period to the end of the requested period, each expense once
\* (an expense dated exactly at the requested start included).
C24_PeriodsDoNotOverlap ==
    [][\A u \in Users, q \in AnalysisQueries :
          CategoryAnalysis(u, q) =>
              \A i \in DOMAIN res'.categories :
                  res'.categories[i].totalAmount + res'.categories[i].previousPeriodAmount
                  = SpentOn(u, res'.categories[i]._id,
                            2 * AnalysisStart(now, q) - AnalysisEnd(now, q),
                            AnalysisEnd(now, q))]_vars

IsProgressResponse(r) == "onTrackGoals" \in DOMAIN r

\* C25: in a Goals progress answer every goal's progress is
\* min(currentAmount / targetAmount * 100, 100), so it never exceeds 100,
\* also for a goal whose currentAmount is above its targetAmount.
C25_ProgressIsCappedAt100 ==
    IsProgressResponse(res) =>
        \A id \in DOMAIN res.goals :
            LET row == res.goals[id] IN
            /\ row.progress.num <= 100 * row.progress.den
            /\ row.currentAmount >= row.targetAmount => row.progress = Ratio(100, 1)

\* C26: in a Goals progress answer every goal's requiredMonthlyContribution
\* is remainingAmount / max(daysRemaining / 30, 0.1), with remainingAmount
\* = max(targetAmount - currentAmount, 0): it is finite and not negative,
\* and it is 0 exactly when currentAmount >= targetAmount.
C26_RequiredMonthlyContributionIsFinite ==
    IsProgressResponse(res) =>
        \A id \in DOMAIN res.goals :
            LET row == res.goals[id]
                required == row.requiredMonthlyContribution
                remaining == IF row.targetAmount > row.currentAmount
                             THEN row.targetAmount - row.currentAmount ELSE 0
            IN  /\ required.den > 0
                /\ required.num >= 0
                /\ (required.num = 0) <=> (row.currentAmount >= row.targetAmount)
                /\ IF 10 * row.daysRemaining >= 30
                   THEN required.num * row.daysRemaining = remaining * 30 * required.den
                   ELSE required.num = remaining * 10 * required.den
\* an answer with a goal due in three days or more that still lacks money,
\* and a goal above its target whose target date has passed
C26_Witness ==
    /\ IsProgressResponse(res)
    /\ \E id \in DOMAIN res.goals :
          /\ res.goals[id].daysRemaining >= 3
          /\ res.goals[id].requiredMonthlyContribution.num > 0
    /\ \E id \in DOMAIN res.goals :
          /\ res.goals[id].daysRemaining <= 0
          /\ res.goals[id].currentAmount > res.goals[id].targetAmount

IsReportResponse(r) == "dailyBreakdown" \in DOMAIN r

\* C27: a Monthly report's summary.totalExpenses is the sum of the
\* requester's expenses dated from the first to the last instant of the
\* reported calendar month, the month's last day included, and the totals
\* of dailyBreakdown, of categoryBreakdown and of paymentMethodBreakdown
\* each add up to summary.totalExpenses.
C27_MonthlyReportCoversTheMonth ==
    [][\A u \in Users, q \in ReportQueries :
          (MonthlyReport(u, q) /\ IsReportResponse(res')) =>
              /\ res'.summary.totalExpenses =
                    Spent(u, ReportStart(now, q), ReportStart(now, q) + MonthTicks - 1)
              /\ SumTotals(res'.dailyBreakdown) = res'.summary.totalExpenses
              /\ SumTotals(res'.categoryBreakdown) = res'.summary.totalExpenses
              /\ SumTotals(res'.paymentMethodBreakdown) = res'.summary.totalExpenses]_vars

\* C28: no Create, Update, SetStatus or AddContribution request, whatever
\* its body, changes the owner of an existing goal or expense, and a
\* created record is owned by its requester; so the records another user
\* owns are the same before and after every request.
C28_OwnerNeverChanges ==
    [][/\ \A id \in GoalIds :
            (IsDoc(goals[id]) /\ IsDoc(goals'[id])) => goals'[id].user = goals[id].user
       /\ \A id \in ExpenseIds :
            (IsDoc(expenses[id]) /\ IsDoc(expenses'[id])) =>
                    expenses'[id].user = expenses[id].user
       /\ \A u \in Users, id \in OwnerGoalIds, body \in OwnerGoalCreateBodies :
            (CreateGoal(u, id, body) /\ IsDoc(goals'[id])) => goals'[id].user = u
       /\ \A u \in Users, id \in OwnerExpenseIds, body \in OwnerExpenseCreateBodies :
            (CreateExpense(u, id, body) /\ IsDoc(expenses'[id])) =>
                    expenses'[id].user = u]_vars

\* C29: the save of an AddContribution request that loaded the goal earlier
\* writes nothing when the goal's persisted status is no longer Active at
\* that moment: no contribution is appended, currentAmount and status stay
\* as the concurrent request persisted them.
C29_NoContributionToInactiveGoal ==
    [][\A s \in Slots :
          (/\ ContributeSave(s)
           /\ IsDoc(goals[inflight[s].id])
           /\ goals[inflight[s].id].status # "Active")
          => goals'[inflight[s].id] = goals[inflight[s].id]]_vars

\* C30: a request sent through the API client carries 'Authorization:
\* Bearer <token>' with the stored token when one is stored and no
\* Authorization header otherwise; a 401 response leaves no token stored,
\* and only the storing of a new token brings one back; the redirect to
\* /login is started only from a path other than /login.
C30_TokenHeaderAndExpiry ==
    [][/\ SendRequest =>
            /\ Has(client.token) => client'.sent = Bearer(Val(client.token))
            /\ ~Has(client.token) => client'.sent = NoAuthorization
       /\ \A o \in Outcomes :
            (ReceiveResponse(o) /\ Is401(o)) => ~Has(client'.token)
       /\ (~Has(client.token) /\ Has(client'.token)) =>
            \E token \in StoredTokens : StoreToken(token)
       /\ (client'.href # client.href /\ Has(client'.href)) =>
            client.pathname # LoginPath]_vars

\* after a 401 away from /login: the token is gone, the redirect is under
\* way, and the request sent last left without a header
C30_Witness ==
    /\ client.toasts = <<"Session expired. Please login again.">>
    /\ ~Has(client.token)
    /\ client.href = <<LoginPath>>
    /\ client.pending > 0
    /\ client.sent = NoAuthorization

====
